---------------------------- MODULE Spec2Model ----------------------------
(* Help-ticket plugin (server/chat-plugins/helptickets.ts): the ticket    *)
(* table, the HelpTicket room game with its claim queue and timing        *)
(* counters, the staff notification with its escalation timer, and the    *)
(* chat commands that create, close, ban and delete tickets.               *)
(*                                                                         *)
(* Time is counted in units of 30 seconds.                                 *)
EXTENDS Integers, Sequences, FiniteSets, TLC

\* ------------------------------------------------------------------ bounds
StartTime == 10      \* Date.now() at the first state (a timestamp, never 0)
MaxTicks == 2        \* how many time units a run may advance
MaxQueue == 2        \* claimQueue.push is explored up to this length
MaxRecords == 2      \* statistics lines explored per ticket
MaxLogLines == 2     \* lines of the month's statistics file that is viewed

\* ------------------------------------------------------- program constants
NOTIFY_ALL_TIMEOUT == 10
NOTIFY_ASSIST_TIMEOUT == 2
TICKET_CACHE_TIME == 2880            \* 24 hours

\* ------------------------------------------------------------------- users
NULL == "null"                       \* JS null / undefined / absent key
Requesters == {"u1", "u2"}           \* users without the lock permission
StaffIds == {"x", "y"}               \* global staff (user.isStaff, can('lock'))
Crowd == {"u3", "u4", "u5", "u6"}          \* more users without it, each on an own address
UserIds == Requesters \cup Crowd \cup StaffIds

\* user.name of a user id
NameOf(u) ==
    CASE u = "u1" -> "U 1"
      [] u = "u2" -> "U 2"
      [] u = "u3" -> "U 3"
      [] u = "u4" -> "U 4"
      [] u = "u5" -> "U 5"
      [] u = "u6" -> "U 6"
      [] u = "x" -> "X"
      [] u = "y" -> "Y"

\* toID(): lower-cases and strips everything but [a-z0-9]; null gives ''
toID(s) ==
    CASE s = "U 1" -> "u1"
      [] s = "U 2" -> "u2"
      [] s = "U 3" -> "u3"
      [] s = "U 4" -> "u4"
      [] s = "U 5" -> "u5"
      [] s = "U 6" -> "u6"
      [] s = "X" -> "x"
      [] s = "Y" -> "y"
      [] s = "hello" -> "hello"
      [] s = "Hello!" -> "hello"
      [] s = "He spammed me in PMs" -> "hespammedmeinpms"
      [] OTHER -> ""

isStaff(u) == u \in StaffIds

\* administrators: user.can('makeroom') and user.can('bypassall')
Admins == {"x"}

\* user.latestIp; u1 and u2 connect from the same address
latestIp(u) ==
    CASE u = "u1" -> "ip1"
      [] u = "u2" -> "ip1"
      [] u = "x" -> "ip2"
      [] u = "y" -> "ip3"
      [] u = "u3" -> "ip4"
      [] u = "u4" -> "ip5"
      [] u = "u5" -> "ip6"
      [] u = "u6" -> "ip7"

Audiences == {"upperstaff", "staff"}

\* ------------------------------------------------------------------- state
VARIABLES
    now,                    \* Date.now()
    tickets,                \* the tickets table: userid -> TicketState or NoTicket
    rooms,                  \* help-<userid> rooms: users present and the game
    audit,                  \* per room: lines written to the statistics log
    unclaimedTicketTimer,   \* audience -> timeout handle or NoTimer
    timerEnds,              \* audience -> recorded end time
    timeouts,               \* timeouts scheduled and neither cancelled nor run
    staffRoom,              \* Rooms.get('staff') exists
    ticketKeys,             \* Object.keys(tickets): the keys in insertion order
    sharedIps,              \* Punishments.sharedIps
    ticketBans,             \* user ids and addresses under a TICKETBAN
    writePending,           \* a throttled write of the ticket file is scheduled
    ticketData,             \* config/tickets.json as parsed: key -> entry or NoTicket
    hotReload,              \* Chat.oldPlugins.helptickets is set
    loaded,                 \* the module's load loop has run
    logFault,               \* what appendSync does on the statistics log: "none" or
                            \* the code of the error it throws
    thrown,                 \* the error the last operation ended with, or NULL
    monthLog,               \* logs/tickets/<month>.tsv of the month that is viewed:
                            \* its lines, split into fields
    staffPage               \* the by-staff statistics page served last, or NoPage

\* no statistics page was served yet
NoPage == [absent |-> TRUE]

vars == <<now, tickets, ticketKeys, rooms, audit, unclaimedTicketTimer, timerEnds, timeouts,
          staffRoom, sharedIps, ticketBans, writePending, ticketData, hotReload, loaded,
          logFault, thrown, monthLog, staffPage>>

NoTimer == 0
NoTicket == [absent |-> TRUE]        \* tickets[key] is undefined

\* ------------------------------------------------------------ ticket types
TicketTypes ==
    {"PM Harassment", "Battle Harassment", "Inappropriate Username",
     "Inappropriate Pokemon Nicknames", "Appeal", "IP-Appeal", "ISP-Appeal",
     "Public Room Assistance Request", "Other"}

\* contexts[ticketType] is set: the type opens with a question to the requester
contexts(type) == type \in TicketTypes \ {"ISP-Appeal"}

\* delayWarnings[ticket.type] is set (the table's last key is 'other', not 'Other')
delayWarnings(type) ==
    type \in {"PM Harassment", "Battle Harassment", "Inappropriate Username",
              "Inappropriate Pokemon Nicknames", "Appeal", "IP-Appeal",
              "Public Room Assistance Request", "other"}

blockedMessages ==
    {"hi", "hello", "hullo", "hey", "yo", "ok", "hesrude", "shesrude",
     "hesinappropriate", "shesinappropriate", "heswore", "sheswore", "help", "yes"}

Messages == {"hello", "Hello!", "He spammed me in PMs"}

\* ------------------------------------------------------- the ticket table
\* tickets[key] = ticket, as (table, keys)
StoreSet(tk, keys, key, ticket) ==
    [tickets |-> [tk EXCEPT ![key] = ticket],
     keys |-> IF \E i \in 1..Len(keys) : keys[i] = key THEN keys ELSE Append(keys, key)]

\* a delete that leaves the table as it is
StoreKeep(tk, keys, key) == [tickets |-> tk, keys |-> keys]

\* delete tickets[key]
StoreDelete(tk, keys, key) ==
    [tickets |-> [tk EXCEPT ![key] = NoTicket],
     keys |-> SelectSeq(keys, LAMBDA k : k # key)]

\* ------------------------------------------------------ escalation timer
\* The timer state handled as one value: the slot and end time per audience and
\* the set of timeouts that are scheduled and neither cancelled nor run.
TimerState == [slot |-> unclaimedTicketTimer, ends |-> timerEnds, live |-> timeouts]

\* a handle no live timeout and no slot holds
FreshHandle(ts) ==
    LET used == {t.id : t \in ts.live} \cup {ts.slot[a] : a \in Audiences}
    IN CHOOSE n \in 1..(Cardinality(used) + 1) :
           n \notin used /\ \A m \in 1..(n - 1) : m \in used

\* setTimeout(() => notifyUnclaimedTicket(hasAssistRequest), delay)
setTimeout(ts, id, hasAssistRequest, delay, t) ==
    [ts EXCEPT !.live = @ \cup {[id |-> id, at |-> t + delay, arg |-> hasAssistRequest]}]

clearTimeout(ts, id) == [ts EXCEPT !.live = {x \in @ : x.id # id}]

\* the three branches of pokeUnclaimedTicketTimer, for room.roomid = 'staff'
PokeArm(ts, hasAssistRequest, t) ==
    LET delay == IF hasAssistRequest THEN NOTIFY_ASSIST_TIMEOUT ELSE NOTIFY_ALL_TIMEOUT
        id == FreshHandle(ts)
        armed == setTimeout(ts, id, hasAssistRequest, delay, t)
    IN [armed EXCEPT !.slot["staff"] = id, !.ends["staff"] = t + delay]

\* the shortening without clearTimeout: the old timeout stays scheduled
PokeShortenNoClear(ts, hasAssistRequest, t) ==
    LET id == FreshHandle(ts)
        armed == setTimeout(ts, id, hasAssistRequest, NOTIFY_ASSIST_TIMEOUT, t)
    IN [armed EXCEPT !.slot["staff"] = id, !.ends["staff"] = t + NOTIFY_ASSIST_TIMEOUT]

PokeShorten(ts, hasAssistRequest, t) ==
    LET cleared == clearTimeout(ts, ts.slot["staff"])
        id == FreshHandle(cleared)
        armed == setTimeout(cleared, id, hasAssistRequest, NOTIFY_ASSIST_TIMEOUT, t)
    IN [armed EXCEPT !.slot["staff"] = id, !.ends["staff"] = t + NOTIFY_ASSIST_TIMEOUT]

\* the cancel branch left out: the pending timeout stays scheduled
PokeKeep(ts) == ts

\* a cancel that empties the slot and leaves the timeout scheduled
PokeForget(ts) == [ts EXCEPT !.slot["staff"] = NoTimer, !.ends["staff"] = 0]

PokeCancel(ts) ==
    [clearTimeout(ts, ts.slot["staff"]) EXCEPT !.slot["staff"] = NoTimer,
                                               !.ends["staff"] = 0]

pokeUnclaimedTicketTimer(ts, hasUnclaimed, hasAssistRequest, room, t) ==
    IF ~room THEN ts
    ELSE IF hasUnclaimed /\ ts.slot["staff"] = NoTimer
        THEN PokeArm(ts, hasAssistRequest, t)
    ELSE IF /\ hasAssistRequest
            /\ (ts.ends["staff"] - NOTIFY_ASSIST_TIMEOUT) > NOTIFY_ASSIST_TIMEOUT
            /\ ts.slot["staff"] # NoTimer
        THEN PokeShorten(ts, hasAssistRequest, t)
    ELSE IF ~hasUnclaimed /\ ts.slot["staff"] # NoTimer
        THEN PokeCancel(ts)
    ELSE ts

\* ---------------------------------------------------------- notifyStaff
\* the comparator of notifyStaff's sort: a negative result puts a first
CompareTickets(a, b) ==
    IF a.offline THEN (IF b.offline THEN 1 ELSE -1)
    ELSE IF a.open # b.open THEN (IF a.open THEN -1 ELSE 1)
    ELSE IF a.open /\ b.open
        THEN IF a.active # b.active THEN (IF a.active THEN -1 ELSE 1)
             ELSE IF (a.claimed # NULL) # (b.claimed # NULL)
                 THEN (IF a.claimed # NULL THEN 1 ELSE -1)
             ELSE a.created - b.created
    ELSE 0

\* Array.prototype.sort on a short array is an insertion sort: each key is put
\* after the last key of the sorted prefix that does not compare greater
RECURSIVE InsertKey(_, _, _)
InsertKey(tk, sorted, key) ==
    IF sorted = <<>> THEN <<key>>
    ELSE LET last == sorted[Len(sorted)]
         IN IF CompareTickets(tk[last], tk[key]) > 0
            THEN Append(InsertKey(tk, SubSeq(sorted, 1, Len(sorted) - 1), key), last)
            ELSE Append(sorted, key)

RECURSIVE SortKeys(_, _, _)
SortKeys(tk, keys, sorted) ==
    IF keys = <<>> THEN sorted
    ELSE SortKeys(tk, Tail(keys), InsertKey(tk, sorted, Head(keys)))

\* the loop of notifyStaff over the sorted keys
RECURSIVE ScanTickets(_, _, _)
ScanTickets(tk, keys, acc) ==
    IF keys = <<>> THEN acc
    ELSE LET ticket == tk[Head(keys)]
             over == acc.count >= 3
             hidden == IF over THEN acc.hiddenTicketCount + 1 ELSE acc.hiddenTicketCount
             hiddenU == IF over /\ ticket.claimed = NULL
                        THEN acc.hiddenTicketUnclaimedCount + 1
                        ELSE acc.hiddenTicketUnclaimedCount
         IN IF ~ticket.open \/ ~ticket.active THEN ScanTickets(tk, Tail(keys), acc)
            ELSE IF over /\ hidden # 1
                THEN ScanTickets(tk, Tail(keys),
                         [acc EXCEPT !.hiddenTicketCount = hidden,
                                     !.hiddenTicketUnclaimedCount = hiddenU])
            ELSE ScanTickets(tk, Tail(keys),
                     [count |-> acc.count + 1,
                      hiddenTicketCount |-> hidden,
                      hiddenTicketUnclaimedCount |-> hiddenU,
                      hasUnclaimed |-> acc.hasUnclaimed \/ ticket.claimed = NULL,
                      hasAssistRequest |->
                          \/ acc.hasAssistRequest
                          \/ /\ ticket.claimed = NULL
                             /\ ticket.type = "Public Room Assistance Request"])

\* hasUnclaimed and hasAssistRequest as notifyStaff hands them to the timer
StaffSummary(tk, keys) ==
    LET acc == ScanTickets(tk, SortKeys(tk, keys, <<>>),
                   [count |-> 0, hiddenTicketCount |-> 0,
                    hiddenTicketUnclaimedCount |-> 0,
                    hasUnclaimed |-> FALSE, hasAssistRequest |-> FALSE])
    IN [hasUnclaimed |->
            \/ acc.hasUnclaimed
            \/ acc.hiddenTicketCount > 1 /\ acc.hiddenTicketUnclaimedCount > 0,
        hasAssistRequest |-> acc.hasAssistRequest]

\* notifyStaff(): sends the summary and pokes the timer; nothing without a staff room
notifyStaff(ts, tk, keys, room, t) ==
    IF ~room THEN ts
    ELSE LET s == StaffSummary(tk, keys)
         IN pokeUnclaimedTicketTimer(ts, s.hasUnclaimed, s.hasAssistRequest, room, t)

\* ------------------------------------------------------------ the world
\* The handlers are written as functions of the mutable state taken as one
\* value, so that a handler can call another; Commit stores the result.
\* audit.prompted tells what the last handler did: each handler starts without it
World ==
    [tickets |-> tickets, keys |-> ticketKeys, rooms |-> rooms,
     audit |-> [u \in UserIds |-> [audit[u] EXCEPT !.prompted = FALSE]],
     timer |-> TimerState, writePending |-> writePending, error |-> NULL]

Commit(w) ==
    /\ tickets' = w.tickets
    /\ ticketKeys' = w.keys
    /\ rooms' = w.rooms
    /\ audit' = w.audit
    /\ unclaimedTicketTimer' = w.timer.slot
    /\ timerEnds' = w.timer.ends
    /\ timeouts' = w.timer.live
    /\ writePending' = w.writePending
    /\ thrown' = w.error

\* writeTickets(): schedules the throttled write of the table
writeTickets(w) == [w EXCEPT !.writePending = TRUE]

\* what a notifyStaff call reads of a ticket for the summary it sends
Shown(ticket) ==
    IF ticket = NoTicket THEN NoTicket
    ELSE [open |-> ticket.open, active |-> ticket.active, claimed |-> ticket.claimed,
          offline |-> ticket.offline]

\* room.send(buf): the summary sent to the staff room is the last one broadcast
Broadcast(a, tk) == [u \in DOMAIN a |-> [a[u] EXCEPT !.shown = Shown(tk[u])]]

Notify(w) ==
    LET w1 == [w EXCEPT !.timer = notifyStaff(w.timer, w.tickets, w.keys, staffRoom, now)]
    IN IF staffRoom THEN [w1 EXCEPT !.audit = Broadcast(@, w.tickets)] ELSE w1

\* tickets[this.ticket.userid] = this.ticket
StoreTicket(w, r) ==
    LET st == StoreSet(w.tickets, w.keys, r, w.tickets[r])
    IN [w EXCEPT !.tickets = st.tickets, !.keys = st.keys]

NoRoom == [exists |-> FALSE]

RoomExists(w, r) == w.rooms[r].exists

\* What the checks record about the ticket of a room, beside the program's state:
\* the lines written to the statistics log for it (their number, the last one and
\* what held when it was written), the time it has spent open, active and
\* unclaimed, whether a non-staff user was present at its first claim, whether a
\* queued staff member was promoted, a bit that changes with every new ticket,
\* the number of delay warnings posted to its room, whether a greeting was
\* answered with the prompt, and what the last summary sent to staff read of the
\* ticket.
NewAudit ==
    [written |-> 0, line |-> NULL, atWrite |-> NULL, idle |-> 0,
     presentAtFirstClaim |-> "unknown", promoted |-> FALSE, gen |-> 0, warned |-> 0,
     prompted |-> FALSE, shown |-> NoTicket]

\* ------------------------------------------------------------ HelpTicket
\* a constructor that stamps the activation whether or not the ticket is active
NewHelpTicketStamped(ticket, t) ==
    [claimQueue |-> <<>>,
     involvedStaff |-> {},
     createTime |-> t,
     activationTime |-> t,
     emptyRoom |-> FALSE,
     firstClaimTime |-> 0,
     unclaimedTime |-> 0,
     lastUnclaimedStart |-> t,
     closeTime |-> 0,
     resolution |-> "unknown",
     result |-> NULL,
     playerTable |-> {}]

\* new HelpTicket(room, ticket)
NewHelpTicket(ticket, t) ==
    [claimQueue |-> <<>>,
     involvedStaff |-> {},
     createTime |-> t,
     activationTime |-> IF ticket.active THEN t ELSE 0,
     emptyRoom |-> FALSE,
     firstClaimTime |-> 0,
     unclaimedTime |-> 0,
     lastUnclaimedStart |-> IF ticket.active THEN t ELSE 0,
     closeTime |-> 0,
     resolution |-> "unknown",
     result |-> NULL,
     playerTable |-> {}]

\* RoomGame.addPlayer / removePlayer on the player table
addPlayer(w, r, user) == [w EXCEPT !.rooms[r].game.playerTable = @ \cup {user}]

removePlayer(w, r, user) == [w EXCEPT !.rooms[r].game.playerTable = @ \ {user}]

\* the filter with the creator counted as staff
PresentOthers(w, r) ==
    {u \in w.rooms[r].users : ~isStaff(u) /\ u # w.tickets[r].userid}

\* the users onJoin counts at the first claim: named, and not staff unless the
\* ticket's creator (every user of the model is named)
PresentRequesters(w, r) ==
    {u \in w.rooms[r].users : ~(isStaff(u) /\ u # w.tickets[r].userid)}

\* onJoin, staff branch with the ticket unclaimed
ClaimTicket(w, r, user) ==
    LET g == w.rooms[r].game
        first == g.firstClaimTime = 0
        w1 == [w EXCEPT !.tickets[r].claimed = NameOf(user)]
        w2 == IF first
              THEN [w1 EXCEPT !.rooms[r].game.firstClaimTime = now,
                              !.rooms[r].game.emptyRoom =
                                  IF PresentRequesters(w, r) = {} THEN TRUE ELSE @,
                              !.audit[r].presentAtFirstClaim =
                                  IF \E u \in w.rooms[r].users : ~isStaff(u)
                                  THEN "yes" ELSE "no"]
              ELSE w1
        w3 == IF w.tickets[r].active
              THEN [w2 EXCEPT !.rooms[r].game.unclaimedTime =
                                  @ + (now - g.lastUnclaimedStart),
                              !.rooms[r].game.lastUnclaimedStart = 0]
              ELSE w2
    IN Notify(writeTickets(StoreTicket(w3, r)))

\* this.claimQueue.push(user.name)
QueueClaim(w, r, user) ==
    [w EXCEPT !.rooms[r].game.claimQueue = Append(@, NameOf(user))]

onJoin(w, r, user) ==
    LET ticket == w.tickets[r]
    IN IF ~ticket.open THEN w
       ELSE IF ~isStaff(user) \/ user = ticket.userid
           THEN LET w1 == addPlayer([w EXCEPT !.rooms[r].game.emptyRoom = FALSE], r, user)
                IN IF ticket.offline
                   THEN Notify(writeTickets([w1 EXCEPT !.tickets[r].offline = FALSE]))
                   ELSE w1
       ELSE IF ticket.claimed = NULL THEN ClaimTicket(w, r, user)
       ELSE QueueClaim(w, r, user)

\* pop() in place of shift(): the last to arrive is served first
QueuePop(queue) ==
    [head |-> queue[Len(queue)], rest |-> SubSeq(queue, 1, Len(queue) - 1)]

\* this.claimQueue.shift()
QueueShift(queue) == [head |-> Head(queue), rest |-> Tail(queue)]

\* an unclaim that also takes the ticket back to inactive
UnclaimDeactivates(w, r) ==
    LET g == w.rooms[r].game
        w1 == IF Len(g.claimQueue) > 0
              THEN [w EXCEPT !.tickets[r].claimed = QueueShift(g.claimQueue).head,
                             !.rooms[r].game.claimQueue = QueueShift(g.claimQueue).rest,
                             !.audit[r].promoted = TRUE]
              ELSE Notify([w EXCEPT !.tickets[r].claimed = NULL,
                                    !.tickets[r].active = FALSE,
                                    !.rooms[r].game.lastUnclaimedStart = now])
    IN writeTickets(StoreTicket(w1, r))

\* onLeave, the claimant leaves
Unclaim(w, r) ==
    LET g == w.rooms[r].game
        w1 == IF Len(g.claimQueue) > 0
              THEN [w EXCEPT !.tickets[r].claimed = QueueShift(g.claimQueue).head,
                             !.rooms[r].game.claimQueue = QueueShift(g.claimQueue).rest,
                             !.audit[r].promoted = TRUE]
              ELSE Notify([w EXCEPT !.tickets[r].claimed = NULL,
                                    !.rooms[r].game.lastUnclaimedStart = now])
    IN writeTickets(StoreTicket(w1, r))

\* claimQueue.map(toID).indexOf(user.id), then splice(index, 1)
QueueRemove(queue, user) ==
    LET hits == {i \in 1..Len(queue) : toID(queue[i]) = user}
    IN IF hits = {} THEN queue
       ELSE LET index == CHOOSE i \in hits : \A j \in hits : i <= j
            IN SubSeq(queue, 1, index - 1) \o SubSeq(queue, index + 1, Len(queue))

\* an onLeave that does not look at ticket.open
onLeaveOfClosed(w, r, user) ==
    IF user \in w.rooms[r].game.playerTable
    THEN Notify(writeTickets([removePlayer(w, r, user) EXCEPT !.tickets[r].offline = TRUE]))
    ELSE IF toID(w.tickets[r].claimed) = user THEN Unclaim(w, r)
    ELSE [w EXCEPT !.rooms[r].game.claimQueue = QueueRemove(@, user)]

onLeave(w, r, user) ==
    LET ticket == w.tickets[r]
        g == w.rooms[r].game
    IN IF user \in g.playerTable
       THEN Notify(writeTickets([removePlayer(w, r, user) EXCEPT !.tickets[r].offline = TRUE]))
       ELSE IF ~ticket.open THEN w
       ELSE IF toID(ticket.claimed) = user THEN Unclaim(w, r)
       ELSE [w EXCEPT !.rooms[r].game.claimQueue = QueueRemove(@, user)]

\* an activation that leaves the unclaimed clock where it was
ActivateNoClock(w, r) ==
    [Notify([w EXCEPT !.tickets[r].active = TRUE,
                      !.rooms[r].game.activationTime = now])
        EXCEPT !.tickets[r].needsDelayWarning = TRUE]

\* onLogMessage, the requester's first qualifying message
Activate(w, r) ==
    LET w1 == [w EXCEPT !.tickets[r].active = TRUE,
                        !.rooms[r].game.activationTime = now,
                        !.rooms[r].game.lastUnclaimedStart =
                            IF w.tickets[r].claimed = NULL THEN now ELSE @]
    IN [Notify(w1) EXCEPT !.tickets[r].needsDelayWarning = TRUE]

\* the two lines room.add() posts in answer to a greeting
Prompt(w, r) == [w EXCEPT !.audit[r].prompted = TRUE]

\* an onLogMessage that looks the message up as it was typed
onLogMessageRaw(w, r, message, user) ==
    LET ticket == w.tickets[r]
        asRequester == ~isStaff(user) \/ ticket.userid = user
        w1 == IF isStaff(user) /\ ticket.userid # user
              THEN [w EXCEPT !.rooms[r].game.involvedStaff = @ \cup {user}]
              ELSE w
    IN IF ~ticket.open THEN w
       ELSE IF ticket.active THEN w1
       ELSE IF asRequester /\ message \in blockedMessages THEN Prompt(w1, r)
       ELSE IF asRequester /\ ~ticket.active THEN Activate(w1, r)
       ELSE w1

onLogMessage(w, r, message, user) ==
    LET ticket == w.tickets[r]
        asRequester == ~isStaff(user) \/ ticket.userid = user
        w1 == IF isStaff(user) /\ ticket.userid # user
              THEN [w EXCEPT !.rooms[r].game.involvedStaff = @ \cup {user}]
              ELSE w
    IN IF ~ticket.open THEN w
       ELSE IF ticket.active THEN w1
       ELSE IF asRequester /\ toID(message) \in blockedMessages THEN Prompt(w1, r)
       ELSE IF asRequester /\ ~ticket.active THEN Activate(w1, r)
       ELSE w1

\* a result that does not look at the ticket type
BooleanResultAnyType(type, positive) == IF positive THEN "assisted" ELSE "unassisted"

\* the result written for a boolean outcome, by ticket type
BooleanResult(type, positive) ==
    IF type \in {"Appeal", "IP-Appeal", "ISP-Appeal"}
        THEN (IF positive THEN "approved" ELSE "denied")
    ELSE IF type \in {"PM Harassment", "Battle Harassment", "Inappropriate Username",
                      "Inappropriate Pokemon Nicknames"}
        THEN (IF positive THEN "valid" ELSE "invalid")
    ELSE (IF positive THEN "assisted" ELSE "unassisted")

\* a resolution that does not look at emptyRoom
ResolutionOfClaimed(active, firstClaimTime, emptyRoom) ==
    IF ~active THEN "dead" ELSE IF firstClaimTime = 0 THEN "unresolved" ELSE "resolved"

Resolution(active, firstClaimTime, emptyRoom) ==
    IF ~active THEN "dead"
    ELSE IF firstClaimTime = 0 \/ emptyRoom THEN "unresolved"
    ELSE "resolved"

\* one more line in the statistics log for room r's ticket, with what was true
\* of the ticket when the line was written
AppendStats(a, line, g) ==
    [a EXCEPT !.written = @ + 1,
              !.line = line,
              !.atWrite = [idle |-> a.idle,
                           activated |-> g.activationTime # 0,
                           claimed |-> g.firstClaimTime # 0]]

\* writeStats(line): appendSync on the month's file; the catch lets ENOENT pass
\* and throws every other error again
AppendLine(w, r, line, g) ==
    IF logFault = "none" THEN [w EXCEPT !.audit[r] = AppendStats(@, line, g)]
    ELSE IF logFault = "ENOENT" THEN w
    ELSE [w EXCEPT !.error = logFault]

\* an exception is in flight: the statements that follow do not run
Failed(w) == w.error # NULL

\* HelpTicket.writeStats(result); result is "true", "false", "ticketban" or "deleted"
writeStats(w, r, result) ==
    LET g == w.rooms[r].game
        ticket == w.tickets[r]
        closeTime == now
        unclaimedTime == IF g.lastUnclaimedStart # 0
                         THEN g.unclaimedTime + (closeTime - g.lastUnclaimedStart)
                         ELSE g.unclaimedTime
        resolution == Resolution(ticket.active, g.firstClaimTime, g.emptyRoom)
        res == IF result \in {"true", "false"}
               THEN BooleanResult(ticket.type, result = "true")
               ELSE result
        firstClaimWait ==
            IF g.activationTime # 0
            THEN (IF g.firstClaimTime # 0 THEN g.firstClaimTime ELSE closeTime)
                     - g.activationTime
            ELSE 0
        involvedStaff == IF g.activationTime # 0 THEN g.involvedStaff ELSE {}
        line == [type |-> ticket.type, total |-> closeTime - g.createTime,
                 firstClaimWait |-> firstClaimWait, unclaimedTime |-> unclaimedTime,
                 resolution |-> resolution, result |-> res, staff |-> involvedStaff]
        w1 == [w EXCEPT !.rooms[r].game.closeTime = closeTime,
                        !.rooms[r].game.unclaimedTime = unclaimedTime,
                        !.rooms[r].game.resolution = resolution,
                        !.rooms[r].game.result = res]
    IN AppendLine(w1, r, line, g)

\* HelpTicket.close(result, staff); staff is a user id or NULL
close(w, r, result, staff) ==
    LET w1 == Notify(writeTickets(StoreTicket([w EXCEPT !.tickets[r].open = FALSE], r)))
        w2 == [w1 EXCEPT !.rooms[r].game.playerTable = {}]
        g == w2.rooms[r].game
        w3 == IF g.involvedStaff = {}
              THEN IF staff # NULL /\ isStaff(staff) /\ staff # w.tickets[r].userid
                   THEN [w2 EXCEPT !.rooms[r].game.involvedStaff = {staff}]
                   ELSE [w2 EXCEPT !.rooms[r].game.involvedStaff =
                                       {toID(w.tickets[r].claimed)}]
              ELSE w2
    IN writeStats(w3, r, result)

forfeit(w, r, user) ==
    LET g == w.rooms[r].game
        w1 == removePlayer(w, r, user)
        playerCount == Cardinality(w1.rooms[r].game.playerTable)
    IN IF user \notin g.playerTable THEN w
       ELSE IF ~w.tickets[r].open THEN w1
       ELSE IF playerCount - 1 > 0 THEN w1
       ELSE close(w1, r, IF g.firstClaimTime # 0 THEN "true" ELSE "false", user)

\* HelpTicket.destroy(): the implicit close of a ticket still open
destroy(w, r) ==
    IF w.tickets[r] # NoTicket /\ w.tickets[r].open
    THEN writeStats(
             writeTickets(Notify(StoreTicket([w EXCEPT !.tickets[r].open = FALSE], r))),
             r, "false")
    ELSE w

\* room.destroy() / room.expire(): the game is destroyed and the room is gone
RemoveRoom(w, r) == IF Failed(w) THEN w ELSE [w EXCEPT !.rooms[r] = NoRoom]

RoomDestroy(w, r) == IF Failed(w) THEN w ELSE RemoveRoom(destroy(w, r), r)

\* deleteTicket after its close(): delete tickets[...], writeTickets, notifyStaff
DeleteClosed(w, r) ==
    LET st == StoreDelete(w.tickets, w.keys, r)
    IN IF Failed(w) THEN w
       ELSE Notify(writeTickets([w EXCEPT !.tickets = st.tickets, !.keys = st.keys]))

deleteTicket(w, r, staff) ==
    RoomDestroy(DeleteClosed(close(w, r, "deleted", staff), r), r)

\* ------------------------------------------------------------- commands
\* a check that looks at the ban of the identity only
checkBannedId(user) == staffRoom /\ user \in ticketBans

\* HelpTicket.checkBanned(user) finds a ticket ban
checkBanned(user) ==
    IF ~staffRoom THEN FALSE
    ELSE IF user \in ticketBans THEN TRUE
    ELSE IF latestIp(user) \in sharedIps THEN FALSE
    ELSE latestIp(user) \in ticketBans

\* checkIp(ip): the key of the first open ticket from a non-shared address, or NULL
checkIp(tk, keys, ip) ==
    LET hits == {i \in 1..Len(keys) :
                    tk[keys[i]].ip = ip /\ tk[keys[i]].open /\ ip \notin sharedIps}
    IN IF hits = {} THEN NULL
       ELSE keys[CHOOSE i \in hits : \A j \in hits : i <= j]

\* a room join as the commands trigger it: the user is in room.users, then onJoin
JoinRoom(w, r, user) == onJoin([w EXCEPT !.rooms[r].users = @ \cup {user}], r, user)

\* /helpticket submit, from the creation of the ticket record on
\* old is the state after the game the room held before was destroyed
OpenTicket(old, w, user, type) ==
    LET ticket == [creator |-> NameOf(user), userid |-> user, open |-> TRUE,
                   active |-> ~contexts(type), type |-> type, created |-> now,
                   claimed |-> NULL, ip |-> latestIp(user),
                   needsDelayWarning |-> FALSE, offline |-> FALSE]
        users == IF RoomExists(w, user) THEN w.rooms[user].users ELSE {}
        \* the game holds the new ticket; the table takes it at the end
        w1 == [old EXCEPT !.tickets[user] = ticket,
                          !.rooms[user] = [exists |-> TRUE, users |-> users,
                                           game |-> NewHelpTicket(ticket, now)],
                          !.audit[user] = [NewAudit EXCEPT !.gen = 1 - w.audit[user].gen,
                                                          !.shown = w.audit[user].shown]]
        w2 == addPlayer(JoinRoom(w1, user, user), user, user)
    IN IF Failed(old) THEN old ELSE Notify(writeTickets(StoreTicket(w2, user)))

CreateTicket(w, user, type) ==
    OpenTicket(IF RoomExists(w, user) THEN destroy(w, user) ELSE w, w, user, type)

\* /helpticket submit; limited: Monitor.countTickets refuses the address
submit(w, user, type, limited) ==
    LET own == w.tickets[user]
        ipTicket == checkIp(w.tickets, w.keys, latestIp(user))
        found == IF own = NoTicket /\ ipTicket # NULL THEN ipTicket ELSE user
        hasOpen == (own # NoTicket /\ own.open) \/ ipTicket # NULL
        w1 == IF hasOpen /\ ~RoomExists(w, found)
              THEN writeTickets([w EXCEPT !.tickets[found].open = FALSE])
              ELSE w
    IN IF isStaff(user) /\ user \notin Admins THEN w
       ELSE IF checkBanned(user) THEN w
       ELSE IF hasOpen /\ RoomExists(w, found) THEN JoinRoom(w, found, user)
       ELSE IF limited THEN w1
       ELSE IF type \notin TicketTypes THEN w1
       ELSE CreateTicket(w1, user, type)

\* pages.help.request, up to the point where the form is rendered
pageRequest(w, user) ==
    LET own == w.tickets[user]
        ipTicket == checkIp(w.tickets, w.keys, latestIp(user))
        found == IF own = NoTicket /\ ipTicket # NULL THEN ipTicket ELSE user
        hasOpen == (own # NoTicket /\ own.open) \/ ipTicket # NULL
    IN IF checkBanned(user) THEN w
       ELSE IF hasOpen /\ RoomExists(w, found) THEN JoinRoom(w, found, user)
       ELSE IF hasOpen THEN writeTickets([w EXCEPT !.tickets[found].open = FALSE])
       ELSE w

\* the close command without its last statement, ticket.claimed = user.name
closeCommandNoStamp(w, target, user, result) ==
    LET ticket == w.tickets[target]
        res == IF ticket.userid = user /\ ~isStaff(user)
               THEN (IF w.rooms[target].game.firstClaimTime # 0 THEN "true" ELSE "false")
               ELSE result
        w1 == IF RoomExists(w, target)
              THEN close(w, target, res, user)
              ELSE writeTickets(Notify([w EXCEPT !.tickets[target].open = FALSE]))
    IN IF ticket = NoTicket THEN w
       ELSE IF ~ticket.open \/ (ticket.userid # user /\ ~isStaff(user)) THEN w
       ELSE w1

\* /helpticket close [target], [result] by user; result is "true" or "false"
\* a close command that does not look at ticket.open
closeCommandOfClosed(w, target, user, result) ==
    IF w.tickets[target] = NoTicket THEN w
    ELSE IF RoomExists(w, target)
    THEN [close(w, target, result, user) EXCEPT !.tickets[target].claimed = NameOf(user)]
    ELSE [writeTickets(Notify([w EXCEPT !.tickets[target].open = FALSE]))
             EXCEPT !.tickets[target].claimed = NameOf(user)]

\* the close command's last statement, ticket.claimed = user.name
StampClaimed(w, target, user) ==
    IF Failed(w) THEN w ELSE [w EXCEPT !.tickets[target].claimed = NameOf(user)]

closeCommand(w, target, user, result) ==
    LET ticket == w.tickets[target]
        res == IF ticket.userid = user /\ ~isStaff(user)
               THEN (IF w.rooms[target].game.firstClaimTime # 0 THEN "true" ELSE "false")
               ELSE result
        w1 == IF RoomExists(w, target)
              THEN close(w, target, res, user)
              ELSE writeTickets(Notify([w EXCEPT !.tickets[target].open = FALSE]))
    IN IF ticket = NoTicket THEN w
       ELSE IF ~ticket.open \/ (ticket.userid # user /\ ~isStaff(user)) THEN w
       ELSE StampClaimed(w1, target, user)

\* the loop of /helpticket ban over the affected users
RECURSIVE BanAffected(_, _)
BanAffected(w, affected) ==
    IF affected = {} \/ Failed(w) THEN w
    ELSE LET u == CHOOSE a \in affected : TRUE
             w1 == IF w.tickets[u] # NoTicket /\ w.tickets[u].open
                   THEN [w EXCEPT !.tickets[u].open = FALSE]
                   ELSE w
             w2 == IF RoomExists(w1, u)
                   THEN RoomDestroy(writeStats(w1, u, "ticketban"), u)
                   ELSE w1
         IN BanAffected(w2, affected \ {u})

\* the ban command after its loop: writeTickets, notifyStaff
BanFinish(w) == IF Failed(w) THEN w ELSE Notify(writeTickets(w))

\* a ban command that takes the record of the banned user out of the table
banCommandRemoves(w, target, affected) ==
    LET w1 == BanAffected(w, affected)
        st == StoreDelete(w1.tickets, w1.keys, target)
    IN Notify(writeTickets([w1 EXCEPT !.tickets = st.tickets, !.keys = st.keys]))

\* /helpticket ban [target]; affected is what HelpTicket.ban returns
banCommand(w, target, affected) ==
    BanFinish(BanAffected(w, affected))

\* /helpticket delete [target] by staff
deleteCommand(w, target, staff) ==
    IF w.tickets[target] = NoTicket THEN w
    ELSE IF RoomExists(w, target) THEN deleteTicket(w, target, staff)
    ELSE LET st == StoreDelete(w.tickets, w.keys, target)
         IN Notify(writeTickets([w EXCEPT !.tickets = st.tickets, !.keys = st.keys]))

\* a filter that closes the tickets whatever the punishment is
RECURSIVE punishmentfilterAnyType(_, _, _)
punishmentfilterAnyType(w, ids, type) ==
    IF ids = {} THEN w
    ELSE LET u == CHOOSE a \in ids : TRUE
             w1 == IF RoomExists(w, u) THEN close(w, u, "ticketban", NULL) ELSE w
         IN punishmentfilterAnyType(w1, ids \ {u}, type)

\* punishmentfilter over [userId, ...previousIDs]
RECURSIVE punishmentfilter(_, _, _)
punishmentfilter(w, ids, type) ==
    IF type # "BAN" \/ ids = {} \/ Failed(w) THEN w
    ELSE LET u == CHOOSE a \in ids : TRUE
             w1 == IF RoomExists(w, u) THEN close(w, u, "ticketban", NULL) ELSE w
         IN punishmentfilter(w1, ids \ {u}, type)

\* notifyUnclaimedTicket posts the delay warning to the room of this ticket
WarningDue(tk, u) ==
    /\ tk[u] # NoTicket
    /\ tk[u].open /\ tk[u].active
    /\ tk[u].needsDelayWarning /\ tk[u].claimed = NULL /\ delayWarnings(tk[u].type)

\* warnings that leave needsDelayWarning set
DelayWarningsKeepFlag(tk) == tk

\* notifyUnclaimedTicket: the delay warnings, on the table
DelayWarnings(tk) ==
    [u \in DOMAIN tk |->
        IF WarningDue(tk, u) THEN [tk[u] EXCEPT !.needsDelayWarning = FALSE] ELSE tk[u]]

\* the warnings posted, counted per ticket
CountWarnings(a, tk) ==
    [u \in DOMAIN a |-> IF WarningDue(tk, u) THEN [a[u] EXCEPT !.warned = @ + 1] ELSE a[u]]

\* notifyUnclaimedTicket(hasAssistRequest), run by the timeout tmo
notifyUnclaimedTicket(w, tmo) ==
    LET ran == [w EXCEPT !.timer.live = @ \ {tmo}]
        ts == clearTimeout(ran.timer, ran.timer.slot["staff"])
    IN IF ~staffRoom THEN ran
       ELSE [ran EXCEPT !.timer = [ts EXCEPT !.slot["staff"] = NoTimer,
                                             !.ends["staff"] = 0],
                        !.tickets = DelayWarnings(@),
                        !.audit = CountWarnings(@, w.tickets)]

\* ------------------------------------------------------------ the load
\* an entry of the old format, a ticket ban kept in the ticket file
IsBanEntry(e) == "banned" \in DOMAIN e

IsTicketEntry(e) == "open" \in DOMAIN e

\* ticket.expires && ticket.expires <= Date.now()
BanExpired(e, t) == e.expires # 0 /\ e.expires <= t

\* ticket.created + TICKET_CACHE_TIME <= Date.now()
LoadStale(ticket, t) == ticket.created + TICKET_CACHE_TIME <= t

\* a load that keeps open as persisted
LoadKeepOpen(ticket, hot) == ticket

\* the record the load stores for a ticket it keeps
LoadKept(ticket, hot) ==
    IF ticket.open /\ ~hot THEN [ticket EXCEPT !.open = FALSE] ELSE ticket

\* the sweep of a ticket past the cache time: the room of the running process,
\* if there is one, writes its statistics and expires
LoadSweep(w, u) ==
    IF RoomExists(w, u) THEN RoomDestroy(writeStats(w, u, "false"), u) ELSE w

\* the load loop over the entries of the file, in key order; acc is the table
\* being filled and the ticket bans registered, w the state of the running process
RECURSIVE LoadEntries(_, _, _, _, _, _)
LoadEntries(w, data, keys, hot, t, acc) ==
    IF keys = <<>> \/ Failed(w)
    THEN [w |-> w, tickets |-> acc.tickets, keys |-> acc.keys, bans |-> acc.bans]
    ELSE LET u == Head(keys)
             e == data[u]
         IN IF IsBanEntry(e)
            THEN IF BanExpired(e, t)
                 THEN LoadEntries(w, data, Tail(keys), hot, t, acc)
                 ELSE LoadEntries(w, data, Tail(keys), hot, t,
                          [acc EXCEPT !.bans = @ \cup {e.userid}])
            ELSE IF LoadStale(e, t)
                 THEN LoadEntries(LoadSweep(w, u), data, Tail(keys), hot, t, acc)
            ELSE LET st == StoreSet(acc.tickets, acc.keys, u, LoadKept(e, hot))
                 IN LoadEntries(w, data, Tail(keys), hot, t,
                        [acc EXCEPT !.tickets = st.tickets, !.keys = st.keys])

\* Object.keys of the parsed file
DataKeys(data) ==
    SelectSeq(<<"u1", "u2", "u3", "u4", "u5", "u6", "x", "y">>, LAMBDA u : data[u] # NoTicket)

\* ------------------------------------------------------------- actions
Init ==
    /\ now = StartTime
    /\ tickets = [u \in UserIds |-> NoTicket]
    /\ ticketKeys = <<>>
    /\ rooms = [u \in UserIds |-> NoRoom]
    /\ audit = [u \in UserIds |-> NewAudit]
    /\ unclaimedTicketTimer = [a \in Audiences |-> NoTimer]
    /\ timerEnds = [a \in Audiences |-> 0]
    /\ timeouts = {}
    /\ staffRoom = TRUE
    /\ sharedIps = {}
    /\ ticketBans = {}
    /\ writePending = FALSE
    /\ ticketData = [u \in UserIds |-> NoTicket]
    /\ hotReload = FALSE
    /\ loaded = TRUE
    /\ logFault = "none"
    /\ thrown = NULL
    /\ monthLog = <<>>
    /\ staffPage = NoPage

Unclaimed(tk, u) ==
    tk[u] # NoTicket /\ tk[u].open /\ tk[u].active /\ tk[u].claimed = NULL

\* time passes; a timeout that is due runs first
Tick ==
    /\ now < StartTime + MaxTicks
    /\ \A tmo \in timeouts : tmo.at > now
    /\ now' = now + 1
    /\ audit' = [u \in UserIds |->
                    IF Unclaimed(tickets, u) THEN [audit[u] EXCEPT !.idle = @ + 1]
                    ELSE audit[u]]
    /\ UNCHANGED <<tickets, ticketKeys, rooms, unclaimedTicketTimer, timerEnds,
                   timeouts, staffRoom, sharedIps, ticketBans, writePending,
                   ticketData, hotReload, loaded, logFault, thrown, monthLog,
                   staffPage>>

Frame ==
    UNCHANGED <<now, staffRoom, sharedIps, ticketData, hotReload, loaded, logFault,
                monthLog, staffPage>>

Submit(user, type, limited) ==
    /\ Commit(submit(World, user, type, limited))
    /\ UNCHANGED ticketBans
    /\ Frame

PageRequest(user) ==
    /\ Commit(pageRequest(World, user))
    /\ UNCHANGED ticketBans
    /\ Frame

Join(r, user) ==
    /\ rooms[r].exists
    /\ (isStaff(user) /\ user # tickets[r].userid /\ tickets[r].open
            /\ tickets[r].claimed # NULL)
           => Len(rooms[r].game.claimQueue) < MaxQueue
    /\ Commit(JoinRoom(World, r, user))
    /\ UNCHANGED ticketBans
    /\ Frame

Leave(r, user) ==
    /\ rooms[r].exists
    /\ user \in rooms[r].users
    /\ Commit(onLeave([World EXCEPT !.rooms[r].users = @ \ {user}], r, user))
    /\ UNCHANGED ticketBans
    /\ Frame

Message(r, user, message) ==
    /\ rooms[r].exists
    /\ user \in rooms[r].users
    /\ Commit(onLogMessage(World, r, message, user))
    /\ UNCHANGED ticketBans
    /\ Frame

Forfeit(r, user) ==
    /\ rooms[r].exists
    /\ Commit(forfeit(World, r, user))
    /\ UNCHANGED ticketBans
    /\ Frame

CloseCommand(target, user, result) ==
    /\ Commit(closeCommand(World, target, user, result))
    /\ UNCHANGED ticketBans
    /\ Frame

\* the statistics log of these users' tickets can take another line
LogOpen(users) == \A u \in users : audit[u].written < MaxRecords

BanCommand(target, alts) ==
    /\ staffRoom
    /\ LogOpen({target} \cup alts)
    /\ target \notin ticketBans
    /\ Commit(banCommand(World, target, {target} \cup alts))
    /\ ticketBans' = ticketBans \cup {target, latestIp(target)} \cup alts
    /\ Frame

DeleteCommand(target, staff) ==
    /\ staff \in Admins
    /\ LogOpen({target})
    /\ Commit(deleteCommand(World, target, staff))
    /\ UNCHANGED ticketBans
    /\ Frame

PunishmentFilter(ids, type) ==
    /\ LogOpen(ids)
    /\ Commit(punishmentfilter(World, ids, type))
    /\ UNCHANGED ticketBans
    /\ Frame

RoomExpire(r) ==
    /\ rooms[r].exists
    /\ Commit(RoomDestroy(World, r))
    /\ UNCHANGED ticketBans
    /\ Frame

Fire ==
    \E tmo \in timeouts :
        /\ tmo.at <= now
        /\ Commit(notifyUnclaimedTicket(World, tmo))
        /\ UNCHANGED ticketBans
        /\ Frame

\* Rooms.get('staff') starts or stops finding the staff room
\* a staff room that is gone shows nothing, and neither does a new one
StaffRoomChange ==
    /\ staffRoom' = ~staffRoom
    /\ audit' = [u \in UserIds |-> [audit[u] EXCEPT !.shown = NoTicket]]
    /\ UNCHANGED <<now, tickets, ticketKeys, rooms, unclaimedTicketTimer,
                   timerEnds, timeouts, sharedIps, ticketBans, writePending,
                   ticketData, hotReload, loaded, logFault, thrown, monthLog,
                   staffPage>>

\* the statistics log starts or stops failing, with this error code
LogFaultChange(fault) ==
    /\ logFault' = fault
    /\ UNCHANGED <<now, tickets, ticketKeys, rooms, audit, unclaimedTicketTimer,
                   timerEnds, timeouts, staffRoom, sharedIps, ticketBans, writePending,
                   ticketData, hotReload, loaded, thrown, monthLog,
                   staffPage>>

\* ------------------------------------------------ one ticket, its whole life
\* The ticket of u1 with two staff members in its room; the clock stands still.
TicketTypesOne == {"Other", "ISP-Appeal"}
TicketUsers == {"u1", "x", "y"}

Next ==
    \/ \E type \in TicketTypesOne : Submit("u1", type, FALSE)
    \/ \E user \in TicketUsers : Join("u1", user)
    \/ \E user \in TicketUsers : Leave("u1", user)
    \/ \E user \in TicketUsers, message \in Messages : Message("u1", user, message)
    \/ Forfeit("u1", "u1")
    \/ \E user \in TicketUsers, result \in {"true", "false"} :
           CloseCommand("u1", user, result)
    \/ BanCommand("u1", {})
    \/ DeleteCommand("u1", "x")
    \/ \E type \in {"BAN", "LOCK"} : PunishmentFilter({"u1"}, type)
    \/ RoomExpire("u1")

Spec == Init /\ [][Next]_vars

\* --------------------------------------------- one ticket, with the clock
\* One ticket of u1 and one staff member, with time passing and the escalation
\* timer running.
TicketTypesClock == {"Other", "Public Room Assistance Request"}
ClockUsers == {"u1", "x"}

\* the user's first ticket: a run follows one ticket
SubmitFirst(user, type) ==
    /\ audit[user].gen = 0
    /\ Submit(user, type, FALSE)

NextClock ==
    \/ Tick
    \/ Fire
    \/ \E type \in TicketTypesClock : SubmitFirst("u1", type)
    \/ \E user \in ClockUsers : Join("u1", user)
    \/ \E user \in ClockUsers : Leave("u1", user)
    \/ \E user \in ClockUsers, message \in Messages : Message("u1", user, message)
    \/ Forfeit("u1", "u1")
    \/ \E user \in ClockUsers, result \in {"true", "false"} :
           CloseCommand("u1", user, result)
    \/ BanCommand("u1", {})
    \/ DeleteCommand("u1", "x")
    \/ PunishmentFilter({"u1"}, "BAN")
    \/ RoomExpire("u1")

SpecClock == Init /\ [][NextClock]_vars

\* ---------------------------------------------------- the escalation timer
\* One ticket of u1 as the timer sees it: opened, activated, claimed, unclaimed
\* and closed while time passes, the timer runs and the staff room comes and goes.
NextTimer ==
    \/ Tick
    \/ Fire
    \/ StaffRoomChange
    \/ \E type \in TicketTypesClock : SubmitFirst("u1", type)
    \/ \E user \in ClockUsers : Join("u1", user)
    \/ \E user \in ClockUsers : Leave("u1", user)
    \/ Message("u1", "u1", "He spammed me in PMs")
    \/ CloseCommand("u1", "x", "true")

SpecTimer == Init /\ [][NextTimer]_vars

\* -------------------------------------------------------- the claim queue
\* Tickets of u1 with two staff members who join and leave in any order, any
\* number of times; the ticket is activated and closed along the way.
NextQueue ==
    \/ \E type \in TicketTypesOne : Submit("u1", type, FALSE)
    \/ \E user \in TicketUsers : Join("u1", user)
    \/ \E user \in TicketUsers : Leave("u1", user)
    \/ Message("u1", "u1", "He spammed me in PMs")
    \/ CloseCommand("u1", "x", "true")

SpecQueue == Init /\ [][NextQueue]_vars

\* ------------------------------------------------- a ticket of type Other
\* One ticket of u1 of type Other with two staff members who come and go, the
\* requester's messages, the close command and the clock. The clock runs for less
\* than NOTIFY_ALL_TIMEOUT, so the timer armed for the ticket does not come due.
NextOther ==
    \/ Tick
    \/ SubmitFirst("u1", "Other")
    \/ \E message \in Messages : Message("u1", "u1", message)
    \/ \E user \in StaffIds : Join("u1", user)
    \/ \E user \in StaffIds : Leave("u1", user)
    \/ \E user \in StaffIds, result \in {"true", "false"} :
           CloseCommand("u1", user, result)

SpecOther == Init /\ [][NextOther]_vars

\* ------------------------------------------------ the queue after a close
\* Tickets of u1 with two staff members who join and leave before and after the
\* ticket is closed, by the close command or by the requester's ban.
NextLeave ==
    \/ \E type \in TicketTypesOne : Submit("u1", type, FALSE)
    \/ \E user \in TicketUsers : Join("u1", user)
    \/ \E user \in TicketUsers : Leave("u1", user)
    \/ CloseCommand("u1", "x", "true")
    \/ PunishmentFilter({"u1"}, "BAN")

SpecLeave == Init /\ [][NextLeave]_vars

\* ------------------------------------------------------ closing a ticket
\* Tickets of u1, one after another, with one staff member and every operation
\* that closes a ticket; the clock stands still.
NextClose ==
    \/ \E type \in TicketTypesOne : Submit("u1", type, FALSE)
    \/ \E user \in ClockUsers : Join("u1", user)
    \/ \E user \in ClockUsers : Leave("u1", user)
    \/ \E user \in ClockUsers : Message("u1", user, "He spammed me in PMs")
    \/ Forfeit("u1", "u1")
    \/ \E user \in ClockUsers, result \in {"true", "false"} :
           CloseCommand("u1", user, result)
    \/ BanCommand("u1", {})
    \/ DeleteCommand("u1", "x")
    \/ PunishmentFilter({"u1"}, "BAN")
    \/ RoomExpire("u1")

SpecClose == Init /\ [][NextClose]_vars

\* ------------------------------------------------------------- the load
\* The module is loaded, at a restart or as a hot reload of a running process,
\* over a ticket file that holds tickets of any age, open or closed, and ticket
\* bans of the old format. At a hot reload the running process holds the tickets
\* of the file and may hold the room of u1's ticket.
LoadTime == StartTime + TICKET_CACHE_TIME + 1

LoadCreated == {StartTime, StartTime + 1, StartTime + 2, LoadTime}

FileTickets(u, ages) ==
    {[creator |-> NameOf(u), userid |-> u, open |-> o, active |-> a, type |-> "Other",
      created |-> c, claimed |-> cl, ip |-> latestIp(u),
      needsDelayWarning |-> FALSE, offline |-> FALSE] :
        o \in BOOLEAN, a \in BOOLEAN, c \in ages, cl \in {NULL, "X"}}

FileBans(u) ==
    {[banned |-> TRUE, userid |-> u, expires |-> e, reason |-> ""] :
        e \in {0, LoadTime - 1, LoadTime + 1}}

\* the game of a ticket's room in the running process
RunningGame(ticket) ==
    [NewHelpTicket(ticket, ticket.created) EXCEPT
        !.firstClaimTime = IF ticket.claimed # NULL THEN ticket.created ELSE 0,
        !.lastUnclaimedStart = IF ticket.claimed # NULL THEN 0 ELSE @]

InitLoad ==
    /\ now = LoadTime
    /\ \E e1 \in {NoTicket} \cup FileTickets("u1", LoadCreated) \cup FileBans("u1"),
          e2 \in {NoTicket} \cup FileTickets("u2", {StartTime, LoadTime}) :
          ticketData = [u \in UserIds |->
                           IF u = "u1" THEN e1 ELSE IF u = "u2" THEN e2 ELSE NoTicket]
    /\ hotReload \in BOOLEAN
    /\ tickets = [u \in UserIds |->
                      IF hotReload /\ IsTicketEntry(ticketData[u])
                      THEN ticketData[u] ELSE NoTicket]
    /\ ticketKeys = SelectSeq(<<"u1", "u2">>, LAMBDA u : tickets[u] # NoTicket)
    /\ \E room \in BOOLEAN :
          rooms = [u \in UserIds |->
                      IF room /\ u = "u1" /\ tickets[u] # NoTicket
                      THEN [exists |-> TRUE, users |-> {},
                            game |-> RunningGame(tickets[u])]
                      ELSE NoRoom]
    /\ audit = [u \in UserIds |-> NewAudit]
    /\ unclaimedTicketTimer = [a \in Audiences |-> NoTimer]
    /\ timerEnds = [a \in Audiences |-> 0]
    /\ timeouts = {}
    /\ staffRoom = TRUE
    /\ sharedIps = {}
    /\ ticketBans = {}
    /\ writePending = FALSE
    /\ loaded = FALSE
    /\ logFault = "none"
    /\ thrown = NULL
    /\ monthLog = <<>>
    /\ staffPage = NoPage

\* the module's top level: the load loop, the new timer slots and the rooms'
\* games pointed at the loaded records
Load ==
    /\ ~loaded
    /\ LET res == LoadEntries(World, ticketData, DataKeys(ticketData), hotReload, now,
                       [tickets |-> [u \in UserIds |-> NoTicket], keys |-> <<>>,
                        bans |-> {}])
       IN /\ tickets' = res.tickets
          /\ ticketKeys' = res.keys
          /\ rooms' = res.w.rooms
          /\ audit' = res.w.audit
          /\ timeouts' = res.w.timer.live
          /\ writePending' = res.w.writePending
          /\ thrown' = res.w.error
          /\ ticketBans' = ticketBans \cup res.bans
    /\ unclaimedTicketTimer' = [a \in Audiences |-> NoTimer]
    /\ timerEnds' = [a \in Audiences |-> 0]
    /\ loaded' = TRUE
    /\ UNCHANGED <<now, staffRoom, sharedIps, ticketData, hotReload, logFault,
                   monthLog, staffPage>>

NextLoad == Load

SpecLoad == InitLoad /\ [][NextLoad]_vars

\* ------------------------------------------------------ the timer firing
\* One ticket of u1 and one staff member while the staff room exists: every
\* operation on the ticket, the help page, the clock and the timer.
NextFire ==
    \/ Tick
    \/ Fire
    \/ \E type \in TicketTypesClock : SubmitFirst("u1", type)
    \/ PageRequest("u1")
    \/ \E user \in ClockUsers : Join("u1", user)
    \/ \E user \in ClockUsers : Leave("u1", user)
    \/ Message("u1", "u1", "He spammed me in PMs")
    \/ Forfeit("u1", "u1")
    \/ CloseCommand("u1", "x", "true")
    \/ BanCommand("u1", {})
    \/ DeleteCommand("u1", "x")
    \/ PunishmentFilter({"u1"}, "BAN")
    \/ RoomExpire("u1")

SpecFire == Init /\ [][NextFire]_vars

\* ------------------------------------------------------- the ticket table
\* Two requesters on one address, which is shared or not; tickets are submitted,
\* closed and deleted, and rooms expire.
InitStore ==
    /\ now = StartTime
    /\ tickets = [u \in UserIds |-> NoTicket]
    /\ ticketKeys = <<>>
    /\ rooms = [u \in UserIds |-> NoRoom]
    /\ audit = [u \in UserIds |-> NewAudit]
    /\ unclaimedTicketTimer = [a \in Audiences |-> NoTimer]
    /\ timerEnds = [a \in Audiences |-> 0]
    /\ timeouts = {}
    /\ staffRoom = TRUE
    /\ sharedIps \in {{}, {"ip1"}}
    /\ ticketBans = {}
    /\ writePending = FALSE
    /\ ticketData = [u \in UserIds |-> NoTicket]
    /\ hotReload = FALSE
    /\ loaded = TRUE
    /\ logFault = "none"
    /\ thrown = NULL
    /\ monthLog = <<>>
    /\ staffPage = NoPage

NextStore ==
    \/ \E user \in Requesters, limited \in BOOLEAN : Submit(user, "Other", limited)
    \/ \E target \in Requesters : CloseCommand(target, target, "true")
    \/ \E target \in Requesters : DeleteCommand(target, "x")
    \/ \E r \in Requesters : RoomExpire(r)

SpecStore == InitStore /\ [][NextStore]_vars

\* ------------------------------------------------------ the result written
\* Tickets of u1 of every type, one after another, claimed or not, and closed in
\* every way a ticket is closed.
NextResult ==
    \/ \E type \in TicketTypes : Submit("u1", type, FALSE)
    \/ Join("u1", "x")
    \/ Forfeit("u1", "u1")
    \/ \E result \in {"true", "false"} : CloseCommand("u1", "x", result)
    \/ BanCommand("u1", {})
    \/ DeleteCommand("u1", "x")
    \/ PunishmentFilter({"u1"}, "BAN")
    \/ RoomExpire("u1")

SpecResult == Init /\ [][NextResult]_vars

\* ------------------------------------------------- the punishment filter
\* Two requesters, u2 being a previous id of u1 or a user of its own, on an
\* address that is shared or not: tickets are submitted and claimed, rooms expire,
\* and the users are punished, by a ban or otherwise.
PunishmentTypes == {"BAN", "LOCK", "ROOMBAN"}

FilterIds == {{"u1"}, {"u2"}, {"u1", "u2"}}

NextFilter ==
    \/ \E user \in Requesters : Submit(user, "Other", FALSE)
    \/ \E r \in Requesters : Join(r, "x")
    \/ \E ids \in FilterIds, type \in PunishmentTypes : PunishmentFilter(ids, type)
    \/ \E r \in Requesters : RoomExpire(r)

SpecFilter == InitStore /\ [][NextFilter]_vars

\* ------------------------------------------------ the staff notification
\* Up to five tickets at a time, of u1, u3, u4, u5 and u6 in this order: the
\* first four are active from their creation, the fifth may be a request for
\* assistance, which its requester activates. A staff member claims and unclaims
\* the first ticket, which calls notifyStaff on a table of up to five open,
\* active tickets; time passes and the timer runs.
QueueOrder == <<"u1", "u3", "u4", "u5", "u6">>

\* the user submits a ticket once the users before have theirs
SubmitNext(i, type) ==
    /\ \A j \in 1..(i - 1) : tickets[QueueOrder[j]] # NoTicket
    /\ audit[QueueOrder[i]].gen = 0
    /\ Submit(QueueOrder[i], type, FALSE)

NextNotify ==
    \/ Tick
    \/ Fire
    \/ \E i \in 1..4 : SubmitNext(i, "ISP-Appeal")
    \/ \E type \in {"ISP-Appeal", "Public Room Assistance Request"} : SubmitNext(5, type)
    \/ Message("u6", "u6", "He spammed me in PMs")
    \/ Join("u1", "x")
    \/ Leave("u1", "x")

SpecNotify == Init /\ [][NextNotify]_vars

\* ------------------------------------------------- time without an end
\* For runs in which time passes for ever the state holds every time stamp as
\* seen from the present: when time passes, now stays and each stamp moves one
\* unit into the past. A stamp older than MaxTicks units is kept at that age, and
\* 0 stays the mark of a stamp that is not set.
Aged(t) ==
    IF t = 0 THEN 0
    ELSE IF t - 1 < StartTime - MaxTicks THEN StartTime - MaxTicks
    ELSE t - 1

Elapse ==
    /\ \A tmo \in timeouts : tmo.at > now
    /\ timeouts' = {[tmo EXCEPT !.at = @ - 1] : tmo \in timeouts}
    /\ timerEnds' = [a \in Audiences |->
                        IF timerEnds[a] > now THEN timerEnds[a] - 1 ELSE Aged(timerEnds[a])]
    /\ tickets' = [u \in UserIds |->
                      IF tickets[u] = NoTicket THEN NoTicket
                      ELSE [tickets[u] EXCEPT !.created = Aged(@)]]
    /\ rooms' = [u \in UserIds |->
                    IF ~rooms[u].exists THEN rooms[u]
                    ELSE [rooms[u] EXCEPT !.game.createTime = Aged(@),
                                          !.game.activationTime = Aged(@),
                                          !.game.firstClaimTime = Aged(@),
                                          !.game.lastUnclaimedStart = Aged(@),
                                          !.game.closeTime = Aged(@)]]
    /\ audit' = [u \in UserIds |->
                    IF Unclaimed(tickets, u) /\ audit[u].idle < MaxTicks
                    THEN [audit[u] EXCEPT !.idle = @ + 1]
                    ELSE audit[u]]
    /\ UNCHANGED <<now, ticketKeys, unclaimedTicketTimer, staffRoom, sharedIps,
                   ticketBans, writePending, ticketData, hotReload, loaded, logFault,
                   thrown, monthLog,
                   staffPage>>

\* One ticket of u1 that no staff member comes to claim: u1 activates it and then
\* leaves its room and comes back, any number of times, while time passes. Time
\* does not stop, and a timeout that is due runs.
NextLive ==
    \/ Elapse
    \/ Fire
    \/ \E type \in TicketTypes : SubmitFirst("u1", type)
    \/ Message("u1", "u1", "He spammed me in PMs")
    \/ Leave("u1", "u1")
    \/ Join("u1", "u1")

SpecLive == Init /\ [][NextLive]_vars /\ WF_vars(Elapse) /\ WF_vars(Fire)

\* The same ticket while the staff room comes and goes, over any length of time.
NextStale ==
    \/ Elapse
    \/ Fire
    \/ StaffRoomChange
    \/ \E type \in TicketTypesClock : SubmitFirst("u1", type)
    \/ Message("u1", "u1", "He spammed me in PMs")
    \/ Leave("u1", "u1")
    \/ Join("u1", "u1")

SpecStale == Init /\ [][NextStale]_vars

\* -------------------------------------------------------- the greetings
\* The ticket of u1, created inactive, with u3 (not staff) and one staff member
\* in its room, while u3 has an unclaimed request for assistance of their own
\* and the clock runs.
GreetingTypes == {"Other", "PM Harassment"}
GreetingUsers == {"u1", "u3"}

NextGreeting ==
    \/ Tick
    \/ Fire
    \/ \E type \in GreetingTypes : SubmitNext(1, type)
    \/ SubmitNext(2, "Public Room Assistance Request")
    \/ Message("u3", "u3", "He spammed me in PMs")
    \/ \E user \in {"u3", "x"} : Join("u1", user)
    \/ Leave("u1", "x")
    \/ \E user \in GreetingUsers, message \in Messages : Message("u1", user, message)

SpecGreeting == Init /\ [][NextGreeting]_vars

\* ------------------------------------------------- a ticket without a room
\* A hot reload over a file that holds an open ticket of u1, young enough to be
\* kept, while the running process may have lost the ticket's room. After the
\* load u1, u2 (on the address of u1) and u3 open the help page and submit
\* tickets, of a type the form offers or not, with the rate limit reached or
\* not, and a staff member joins the room of u3.
InitOrphan ==
    /\ InitLoad
    /\ hotReload
    /\ ticketData["u2"] = NoTicket
    /\ IsTicketEntry(ticketData["u1"])
    /\ ticketData["u1"].open
    /\ ticketData["u1"].created = LoadTime

OrphanUsers == {"u1", "u2", "u3"}
OrphanTypes == {"ISP-Appeal", "Other", "Something else"}

PageRequestLoaded(user) == loaded /\ PageRequest(user)

SubmitLoaded(user, type, limited) == loaded /\ Submit(user, type, limited)

JoinLoaded(r, user) == loaded /\ Join(r, user)

NextOrphan ==
    \/ Load
    \/ \E user \in OrphanUsers : PageRequestLoaded(user)
    \/ \E user \in OrphanUsers, type \in OrphanTypes, limited \in BOOLEAN :
           SubmitLoaded(user, type, limited)
    \/ JoinLoaded("u3", "x")

SpecOrphan == InitOrphan /\ [][NextOrphan]_vars

\* --------------------------------------------------------- the forfeit
\* The ticket of u1 with a second user who is not staff in its room, and one
\* staff member; either participant may forfeit.
ForfeitUsers == {"u1", "u3", "x"}

NextForfeit ==
    \/ \E type \in TicketTypesOne : Submit("u1", type, FALSE)
    \/ \E user \in ForfeitUsers : Join("u1", user)
    \/ \E user \in ForfeitUsers : Leave("u1", user)
    \/ Message("u1", "u1", "He spammed me in PMs")
    \/ \E user \in ForfeitUsers : Forfeit("u1", user)

SpecForfeit == Init /\ [][NextForfeit]_vars

\* ---------------------------------------------------------- ticket bans
\* Two requesters on one address, which is shared or not: u1 is ticket-banned at
\* some point, both submit tickets and close them, rooms expire and the staff room
\* comes and goes.
NextBan ==
    \/ \E user \in Requesters : Submit(user, "Other", FALSE)
    \/ \E target \in Requesters : CloseCommand(target, target, "true")
    \/ BanCommand("u1", {})
    \/ \E r \in Requesters : RoomExpire(r)
    \/ StaffRoomChange

SpecBan == InitStore /\ [][NextBan]_vars

\* ------------------------------------------- a failing statistics log
\* Tickets of u1 with one staff member and every operation that finalizes a
\* ticket, while the append to the month's statistics file works, fails because
\* the directory is missing, or fails because the file cannot be written.
NextFault ==
    \/ \E type \in TicketTypesOne : Submit("u1", type, FALSE)
    \/ \E user \in ClockUsers : Join("u1", user)
    \/ Forfeit("u1", "u1")
    \/ \E user \in ClockUsers : CloseCommand("u1", user, "true")
    \/ BanCommand("u1", {})
    \/ DeleteCommand("u1", "x")
    \/ PunishmentFilter({"u1"}, "BAN")
    \/ RoomExpire("u1")
    \/ \E fault \in {"none", "ENOENT", "EACCES"} : LogFaultChange(fault)

SpecFault == Init /\ [][NextFault]_vars

\* ------------------------------------------------------ new tickets
\* Tickets of u1, of every issue type and of a type that does not exist, one
\* after another: a staff member claims and closes them, and the clock runs.
NextSubmit ==
    \/ Tick
    \/ \E type \in TicketTypes \cup {"Something else"} : Submit("u1", type, FALSE)
    \/ Join("u1", "y")
    \/ CloseCommand("u1", "y", "true")

SpecSubmit == Init /\ [][NextSubmit]_vars

\* ------------------------------------------- the by-staff statistics
\* A line of the month's file as the page splits it: total and initwait after
\* parseInt, staff after split(','). The writer joins a set of staff ids, or
\* writes an empty field, which split(',') turns into one empty string.
LogTotals == {1, 4}
LogWaits == {-1, 0}
LogStaff == {<<"">>, <<"x">>, <<"y">>, <<"x", "y">>, <<"y", "x">>}
LogLines == [total : LogTotals, initwait : LogWaits, staff : LogStaff]
LogNames == {"", "x", "y"}

\* the view's columns; any other column means num
StaffCols == {"staff", "num", "time", "total"}

NoStaffStats == [keys |-> <<>>, stat |-> [n \in LogNames |-> [num |-> 0, time |-> 0]]]

\* the (staff, total - initwait) pairs of the file, in the order of the two loops
RECURSIVE StaffEntries(_)
StaffEntries(log) ==
    IF log = <<>> THEN <<>>
    ELSE [i \in 1..Len(Head(log).staff) |->
             [staff |-> Head(log).staff[i],
              time |-> Head(log).total - Head(log).initwait]]
         \o StaffEntries(Tail(log))

\* a loop body that counts the empty identity too
countStaffAll(acc, e) ==
    LET keys == IF \E i \in DOMAIN acc.keys : acc.keys[i] = e.staff
                THEN acc.keys ELSE Append(acc.keys, e.staff)
    IN [keys |-> keys,
        stat |-> [acc.stat EXCEPT ![e.staff] = [num |-> @.num + 1,
                                                time |-> @.time + e.time]]]

\* the body of the inner loop: if (!staff) continue; num++; time += total - initwait
countStaff(acc, e) ==
    IF e.staff = "" THEN acc
    ELSE LET keys == IF \E i \in DOMAIN acc.keys : acc.keys[i] = e.staff
                     THEN acc.keys ELSE Append(acc.keys, e.staff)
         IN [keys |-> keys,
             stat |-> [acc.stat EXCEPT ![e.staff] = [num |-> @.num + 1,
                                                     time |-> @.time + e.time]]]

RECURSIVE staffStats(_, _)
staffStats(acc, entries) ==
    IF entries = <<>> THEN acc
    ELSE staffStats(countStaff(acc, Head(entries)), Tail(entries))

\* Math.round(a / b) for b > 0: halves go up
RoundDiv(a, b) == (2 * a + b) \div (2 * b)

\* a.localeCompare(b, 'en') on the ids of the model
AlphaRank(n) == CHOOSE i \in 1..3 : <<"", "x", "y">>[i] = n

\* the comparator of sortedStaff: negative when a goes before b
StaffCompare(a, b, col, stat) ==
    IF col = "staff" THEN AlphaRank(a) - AlphaRank(b)
    ELSE stat[b][col] - stat[a][col]

\* Array.prototype.sort, which is stable: an insertion sort in the order of the keys
InsertStaff(sorted, a, col, stat) ==
    LET after == {i \in DOMAIN sorted : StaffCompare(sorted[i], a, col, stat) <= 0}
        k == IF after = {} THEN 0
             ELSE CHOOSE i \in after : \A j \in after : j <= i
    IN SubSeq(sorted, 1, k) \o <<a>> \o SubSeq(sorted, k + 1, Len(sorted))

RECURSIVE SortStaff(_, _, _, _)
SortStaff(sorted, keys, col, stat) ==
    IF keys = <<>> THEN sorted
    ELSE SortStaff(InsertStaff(sorted, Head(keys), col, stat), Tail(keys), col, stat)

\* pages.help.stats for the table 'staff': the rows of the page
helpStats(log, column) ==
    LET col == IF column \in {"staff", "num", "time"} THEN column ELSE "num"
        raw == staffStats(NoStaffStats, StaffEntries(log))
        stat == [n \in LogNames |->
                    IF raw.stat[n].num = 0 THEN raw.stat[n]
                    ELSE [num |-> raw.stat[n].num,
                          time |-> RoundDiv(raw.stat[n].time, raw.stat[n].num)]]
        sorted == SortStaff(<<>>, raw.keys, col, stat)
    IN IF log = <<>>
       THEN [of |-> log, found |-> FALSE, rows |-> <<>>]
       ELSE [of |-> log, found |-> TRUE,
             rows |-> [i \in DOMAIN sorted |->
                          [staff |-> sorted[i], num |-> stat[sorted[i]].num,
                           time |-> stat[sorted[i]].time]]]

\* a finalized ticket's line is in the month's file
LogLine(line) ==
    /\ Len(monthLog) < MaxLogLines
    /\ monthLog' = Append(monthLog, line)
    /\ UNCHANGED <<now, tickets, ticketKeys, rooms, audit, unclaimedTicketTimer,
                   timerEnds, timeouts, staffRoom, sharedIps, ticketBans, writePending,
                   ticketData, hotReload, loaded, logFault, thrown, staffPage>>

\* a staff member opens view-help-stats-staff-YYYY-MM-COL
ViewStaff(column) ==
    /\ staffPage' = helpStats(monthLog, column)
    /\ UNCHANGED <<now, tickets, ticketKeys, rooms, audit, unclaimedTicketTimer,
                   timerEnds, timeouts, staffRoom, sharedIps, ticketBans, writePending,
                   ticketData, hotReload, loaded, logFault, thrown, monthLog>>

\* The month's file grows line by line and the by-staff page is opened at any
\* time, sorted by any column.
NextStats ==
    \/ \E line \in LogLines : LogLine(line)
    \/ \E column \in StaffCols : ViewStaff(column)

SpecStats == Init /\ [][NextStats]_vars

\* -------------------------------------------------- the throttled write
\* writeUpdate keeps one pending update of the ticket file; when the throttle
\* runs out it calls the data fetcher, which serializes the table as it is then.
Flush ==
    /\ writePending
    /\ ticketData' = tickets
    /\ writePending' = FALSE
    /\ UNCHANGED <<now, tickets, ticketKeys, rooms, audit, unclaimedTicketTimer,
                   timerEnds, timeouts, staffRoom, sharedIps, ticketBans, hotReload,
                   loaded, logFault, thrown, monthLog,
                   staffPage>>

\* One ticket of u1 with one staff member, the requester's messages, the clock and
\* the timer, the close and the delete command, and the write of the ticket file,
\* which is done whenever it stays pending.
NextPersist ==
    \/ Tick
    \/ Fire
    \/ \E type \in TicketTypesClock : SubmitFirst("u1", type)
    \/ Join("u1", "x")
    \/ \E message \in Messages : Message("u1", "u1", message)
    \/ CloseCommand("u1", "x", "true")
    \/ DeleteCommand("u1", "x")
    \/ Flush

SpecPersist == Init /\ [][NextPersist]_vars /\ WF_vars(Flush)

\* ------------------------------------------------------------- properties
Queue(r) == rooms[r].game.claimQueue

SameTicket(u) ==
    tickets[u] # NoTicket /\ tickets'[u] # NoTicket /\ audit'[u].gen = audit[u].gen

\* C1: on an open ticket, whatever staff joined and left, the claim queue does not
\* hold the current claimant (the claimed field holds one identity at most).
C1_ClaimantNotQueued ==
    \A r \in UserIds :
        (rooms[r].exists /\ tickets[r].open /\ tickets[r].claimed # NULL)
            => \A i \in 1..Len(Queue(r)) : toID(Queue(r)[i]) # toID(tickets[r].claimed)

\* C2: when the claimant of an open ticket leaves and staff are waiting, the head of
\* the queue becomes the claimant and the rest of the queue stays in order; staff
\* who join a claimed ticket are put at the end of the queue.
C2_FifoPromotion ==
    [][\A r \in UserIds, user \in StaffIds :
          /\ ( /\ rooms[r].exists
               /\ tickets[r].open
               /\ user \notin rooms[r].game.playerTable
               /\ toID(tickets[r].claimed) = user
               /\ Len(Queue(r)) > 0
               /\ Leave(r, user) )
             => /\ tickets'[r].claimed = Head(Queue(r))
                /\ rooms'[r].game.claimQueue = Tail(Queue(r))
          /\ ( /\ rooms[r].exists
               /\ tickets[r].open
               /\ user # tickets[r].userid
               /\ tickets[r].claimed # NULL
               /\ Join(r, user) )
             => rooms'[r].game.claimQueue = Append(Queue(r), NameOf(user))
      ]_vars

\* the first of two queued staff members was promoted and holds the open ticket;
\* the second is still waiting
C2_Promoted ==
    \E r \in UserIds :
        /\ rooms[r].exists /\ tickets[r].open
        /\ audit[r].promoted
        /\ tickets[r].claimed = "Y"
        /\ Queue(r) = <<"X">>

\* C3: no ticket has more than one line in the statistics log, whatever finalizing
\* operations run and in whatever order.
C3_OneRecordPerTicket == \A u \in UserIds : audit[u].written <= 1

\* C4: the unclaimedTime written when a ticket is finalized is the time the ticket
\* has spent open, active and without a claimant.
C4_UnclaimedTimeIsIdleTime ==
    \A u \in UserIds :
        audit[u].written = 1 => audit[u].line.unclaimedTime = audit[u].atWrite.idle

\* C5: no two open tickets come from the same address unless the address is shared
\* (the table holds one record per userid by construction).
C5_OneOpenTicketPerAddress ==
    \A u, v \in UserIds :
        ( /\ u # v
          /\ tickets[u] # NoTicket /\ tickets[u].open
          /\ tickets[v] # NoTicket /\ tickets[v].open
          /\ tickets[u].ip = tickets[v].ip )
            => tickets[u].ip \in sharedIps

\* C6, as claimed: a record with open=false has an empty claimed field.
C6_ClosedHasNoClaimant ==
    \A u \in UserIds :
        (tickets[u] # NoTicket /\ ~tickets[u].open) => tickets[u].claimed = NULL

\* C6, amended: closing never clears claimed. The close command leaves the record
\* closed with claimed set to the name of the user who issued it; a step that
\* closes the ticket otherwise leaves claimed as it was; and a closed record stays
\* closed with its claimed value.
C6_ClosedKeepsClaimant ==
    [][\A u \in UserIds :
          /\ \A user \in UserIds, result \in {"true", "false"} :
                ( /\ tickets[u] # NoTicket
                  /\ tickets[u].open
                  /\ (tickets[u].userid = user \/ isStaff(user))
                  /\ CloseCommand(u, user, result) )
                => /\ ~tickets'[u].open
                   /\ tickets'[u].claimed = NameOf(user)
          /\ (SameTicket(u) /\ ~tickets[u].open)
                => /\ ~tickets'[u].open
                   /\ tickets'[u].claimed = tickets[u].claimed
          /\ (SameTicket(u) /\ tickets[u].open /\ ~tickets'[u].open)
                => \/ tickets'[u].claimed = tickets[u].claimed
                   \/ \E user \in UserIds, result \in {"true", "false"} :
                          /\ CloseCommand(u, user, result)
                          /\ tickets'[u].claimed = NameOf(user)
      ]_vars

\* a closed record names a closer who never claimed the ticket
C6_ClosedByCloser ==
    \E u \in UserIds :
        /\ rooms[u].exists
        /\ ~tickets[u].open
        /\ tickets[u].claimed = "X"
        /\ rooms[u].game.firstClaimTime = 0

\* C7: a ticket that is active stays active in every step.
C7_ActiveMonotonic ==
    [][\A u \in UserIds :
          (SameTicket(u) /\ tickets[u].active) => tickets'[u].active]_vars

\* a ticket that a message activated was claimed, unclaimed and closed, and is
\* still active
C7_ActivatedAndClosed ==
    \E u \in UserIds :
        /\ rooms[u].exists
        /\ contexts(tickets[u].type)
        /\ tickets[u].active
        /\ ~tickets[u].open
        /\ rooms[u].game.firstClaimTime # 0
        /\ rooms[u].game.lastUnclaimedStart # 0

FireTime(slot, live, a) ==
    IF \E tmo \in live : tmo.id = slot[a]
    THEN (CHOOSE tmo \in live : tmo.id = slot[a]).at
    ELSE 0

\* C9: no step moves the time at which a pending escalation timer runs to a later
\* time.
C9_TimerNeverLengthened ==
    [][\A a \in Audiences :
          ( /\ FireTime(unclaimedTicketTimer, timeouts, a) # 0
            /\ FireTime(unclaimedTicketTimer', timeouts', a) # 0 )
          => FireTime(unclaimedTicketTimer', timeouts', a)
                 <= FireTime(unclaimedTicketTimer, timeouts, a)
      ]_vars

\* C10: every scheduled timeout is the one its audience's slot holds, so at most
\* one is scheduled per audience.
C10_OneTimeoutPerAudience ==
    /\ \A tmo \in timeouts : tmo.id = unclaimedTicketTimer["staff"]
    /\ Cardinality(timeouts) <= 1

\* a pending timer was replaced by a shorter one, which is the one scheduled
C10_Rescheduled ==
    /\ unclaimedTicketTimer["staff"] = 2
    /\ \E tmo \in timeouts : tmo.id = 2

C12_LoadKeepsYoung ==
    loaded =>
        \A u \in UserIds :
            (IsTicketEntry(ticketData[u]) /\ ~LoadStale(ticketData[u], now))
                => /\ tickets[u] # NoTicket
                   /\ tickets[u] = [ticketData[u] EXCEPT !.open = @ /\ hotReload]

\* a restart has loaded a young ticket that was persisted open, and it is closed
C12_ClosedByRestart ==
    /\ loaded /\ ~hotReload
    /\ IsTicketEntry(ticketData["u1"])
    /\ ticketData["u1"].open
    /\ ticketData["u1"].created = StartTime + 2
    /\ tickets["u1"] # NoTicket
    /\ ~tickets["u1"].open

\* C13: after the load, no ticket of the file that is at least as old as the cache
\* time is in the table, and the statistics log holds one line for it if it was
\* persisted open and none if it was persisted closed.
C13_SweepWritesOnce ==
    loaded =>
        \A u \in UserIds :
            (IsTicketEntry(ticketData[u]) /\ LoadStale(ticketData[u], now))
                => /\ tickets[u] = NoTicket
                   /\ audit[u].written = IF ticketData[u].open THEN 1 ELSE 0

\* C14: every step of scenario A has the effect the scenario gives it. A ticket of
\* type Other is created inactive; the requester's "hello" leaves it inactive; a
\* substantive message of the requester activates it and starts the unclaimed
\* clock; a staff member joining the unclaimed ticket becomes its claimant and
\* the clock stops with the elapsed time added; the claimant leaving with an empty
\* queue leaves it unclaimed and restarts the clock; closing the ticket, activated,
\* first claimed with the requester present and claimed with the clock stopped,
\* with outcome true writes result assisted and resolution resolved.
C14_ScenarioA ==
    [][LET T == tickets["u1"]
           G == rooms["u1"].game
           T2 == tickets'["u1"]
           G2 == rooms'["u1"].game
       IN /\ SubmitFirst("u1", "Other")
                => /\ T2.open /\ ~T2.active /\ T2.claimed = NULL
                   /\ G2.lastUnclaimedStart = 0
          /\ (rooms["u1"].exists /\ T.open /\ ~T.active /\ Message("u1", "u1", "hello"))
                => /\ ~T2.active
                   /\ G2.lastUnclaimedStart = G.lastUnclaimedStart
          /\ (rooms["u1"].exists /\ T.open /\ ~T.active /\ T.claimed = NULL
                   /\ Message("u1", "u1", "He spammed me in PMs"))
                => /\ T2.active
                   /\ G2.activationTime = now
                   /\ G2.lastUnclaimedStart = now
          /\ \A user \in StaffIds :
                (rooms["u1"].exists /\ Unclaimed(tickets, "u1") /\ Join("u1", user))
                    => /\ T2.claimed = NameOf(user)
                       /\ G2.lastUnclaimedStart = 0
                       /\ G2.unclaimedTime = G.unclaimedTime + (now - G.lastUnclaimedStart)
                       /\ (G.firstClaimTime = 0 /\ "u1" \in rooms["u1"].users)
                              => (G2.firstClaimTime = now /\ ~G2.emptyRoom)
          /\ \A user \in StaffIds :
                (rooms["u1"].exists /\ T.open /\ T.active /\ T.claimed = NameOf(user)
                     /\ G.claimQueue = <<>> /\ Leave("u1", user))
                    => /\ T2.claimed = NULL
                       /\ G2.lastUnclaimedStart = now
                       /\ G2.unclaimedTime = G.unclaimedTime
          /\ \A user \in StaffIds :
                (rooms["u1"].exists /\ T.open /\ T.active /\ T.claimed # NULL
                     /\ G.firstClaimTime # 0 /\ ~G.emptyRoom /\ G.lastUnclaimedStart = 0
                     /\ CloseCommand("u1", user, "true"))
                    => /\ ~T2.open
                       /\ audit'["u1"].written = audit["u1"].written + 1
                       /\ audit'["u1"].line.result = "assisted"
                       /\ audit'["u1"].line.resolution = "resolved"
                       /\ audit'["u1"].line.unclaimedTime = G.unclaimedTime
      ]_vars

\* scenario A has run: the ticket was activated, claimed one time unit later,
\* unclaimed, claimed again one time unit after that and closed by Y with outcome
\* true
C14_ScenarioDone ==
    /\ tickets["u1"] # NoTicket
    /\ tickets["u1"].type = "Other"
    /\ ~tickets["u1"].open
    /\ tickets["u1"].claimed = "Y"
    /\ "u1" \in rooms["u1"].users
    /\ audit["u1"].written = 1
    /\ ~audit["u1"].promoted
    /\ audit["u1"].line.result = "assisted"
    /\ audit["u1"].line.resolution = "resolved"
    /\ audit["u1"].line.firstClaimWait = 1
    /\ audit["u1"].line.unclaimedTime = 2

\* C15: a user leaving the room of a closed ticket leaves its claimant as it was:
\* no staff member waiting in claimQueue is promoted after the close.
C15_NoPromotionAfterClose ==
    [][\A user \in UserIds :
          (rooms["u1"].exists /\ ~tickets["u1"].open /\ Leave("u1", user))
              => /\ tickets'["u1"].claimed = tickets["u1"].claimed
                 /\ audit'["u1"].promoted = audit["u1"].promoted
      ]_vars

\* the ticket claimed by X was closed by the requester's ban, which leaves claimed
\* alone, and X has left its room while Y waits in the queue: no one was promoted
C15_ClaimantLeftClosed ==
    /\ rooms["u1"].exists
    /\ audit["u1"].written = 1
    /\ audit["u1"].line.result = "ticketban"
    /\ ~tickets["u1"].open
    /\ tickets["u1"].claimed = "X"
    /\ Queue("u1") = <<"Y">>
    /\ "x" \notin rooms["u1"].users
    /\ "y" \in rooms["u1"].users
    /\ ~audit["u1"].promoted

\* C16: while the staff room's punishments hold a ticket ban of a user, or of the
\* user's latest address when that address is not shared, a submission of that
\* user creates no ticket record, changes none, and creates or changes no room
\* and no statistics line.
C16_BannedSubmitRejected ==
    [][\A user \in Requesters :
          ( /\ staffRoom
            /\ \/ user \in ticketBans
               \/ latestIp(user) \notin sharedIps /\ latestIp(user) \in ticketBans
            /\ Submit(user, "Other", FALSE) )
              => UNCHANGED <<tickets, ticketKeys, rooms, audit, writePending>>
      ]_vars

\* u2, who has no ticket, is held by the ban of the address it shares with u1
C16_BannedByAddress ==
    /\ staffRoom
    /\ "u2" \notin ticketBans
    /\ latestIp("u2") \in ticketBans
    /\ latestIp("u2") \notin sharedIps
    /\ tickets["u2"] = NoTicket
    /\ ENABLED Submit("u2", "Other", FALSE)

\* C17: the close command on a user who has no ticket, or whose ticket is closed,
\* changes no ticket record, no room and no line of the statistics log.
C17_CloseRejected ==
    [][\A user \in ClockUsers, result \in {"true", "false"} :
          ( /\ tickets["u1"] = NoTicket \/ ~tickets["u1"].open
            /\ CloseCommand("u1", user, result) )
              => UNCHANGED <<tickets, ticketKeys, rooms, audit, writePending>>
      ]_vars

\* the ticket of u1 was closed by the close command and its room is still there:
\* a second close command finds a closed ticket
C17_AlreadyClosed ==
    /\ tickets["u1"] # NoTicket
    /\ ~tickets["u1"].open
    /\ tickets["u1"].claimed = "X"
    /\ rooms["u1"].exists
    /\ audit["u1"].written = 1
    /\ audit["u1"].line.result = "denied"
    /\ ENABLED CloseCommand("u1", "x", "true")

\* C18: the teardown of a room whose ticket is open and in the table closes the
\* ticket and writes one line with the result of outcome false; the teardown of a
\* room whose ticket is closed or deleted writes nothing; and either way the
\* ticket of the room torn down has exactly one line in the statistics log.
C18_TeardownLeavesOneRecord ==
    [][RoomExpire("u1") =>
          /\ IF tickets["u1"] # NoTicket /\ tickets["u1"].open
             THEN /\ ~tickets'["u1"].open
                  /\ audit'["u1"].written = audit["u1"].written + 1
                  /\ audit'["u1"].line.result = BooleanResult(tickets["u1"].type, FALSE)
             ELSE /\ audit'["u1"] = audit["u1"]
                  /\ tickets' = tickets
          /\ audit'["u1"].written = 1
      ]_vars

\* C19: the result of the line written when a ticket is closed is given by the
\* outcome and the ticket's type alone: approved or denied for the three appeal
\* types, valid or invalid for the two harassment types and the two inappropriate
\* name types, assisted or unassisted for the other types, and the outcome itself
\* for ticketban and deleted.
C19_ResultByOutcomeAndType ==
    [][LET type == tickets["u1"].type
           Expected(positive) ==
               IF type \in {"Appeal", "IP-Appeal", "ISP-Appeal"}
                   THEN (IF positive THEN "approved" ELSE "denied")
               ELSE IF type \in {"PM Harassment", "Battle Harassment",
                                 "Inappropriate Username",
                                 "Inappropriate Pokemon Nicknames"}
                   THEN (IF positive THEN "valid" ELSE "invalid")
               ELSE (IF positive THEN "assisted" ELSE "unassisted")
           Written(result) ==
               /\ audit'["u1"].written = audit["u1"].written + 1
               /\ audit'["u1"].line.type = type
               /\ audit'["u1"].line.result = result
           Open == rooms["u1"].exists /\ tickets["u1"] # NoTicket /\ tickets["u1"].open
       IN /\ \A result \in {"true", "false"} :
                (Open /\ CloseCommand("u1", "x", result))
                    => Written(Expected(result = "true"))
          /\ (Open /\ "u1" \in rooms["u1"].game.playerTable /\ Forfeit("u1", "u1"))
                => Written(Expected(rooms["u1"].game.firstClaimTime # 0))
          /\ (Open /\ RoomExpire("u1")) => Written(Expected(FALSE))
          /\ (Open /\ PunishmentFilter({"u1"}, "BAN")) => Written("ticketban")
          /\ (Open /\ BanCommand("u1", {})) => Written("ticketban")
          /\ (Open /\ DeleteCommand("u1", "x")) => Written("deleted")
      ]_vars

\* a claimed ticket about inappropriate nicknames was closed with outcome true
C19_ValidWritten ==
    /\ tickets["u1"] # NoTicket
    /\ ~tickets["u1"].open
    /\ tickets["u1"].type = "Inappropriate Pokemon Nicknames"
    /\ audit["u1"].written = 1
    /\ audit["u1"].line.type = "Inappropriate Pokemon Nicknames"
    /\ audit["u1"].line.result = "valid"

\* C20: the delete command on a user who has a ticket leaves the table without a
\* record under that user id; if the ticket was open, one line is written for it,
\* with result deleted, and the room is gone with no further line written.
C20_DeleteRemovesRecord ==
    [][(tickets["u1"] # NoTicket /\ DeleteCommand("u1", "x"))
          => /\ tickets'["u1"] = NoTicket
             /\ \A i \in 1..Len(ticketKeys') : ticketKeys'[i] # "u1"
             /\ tickets["u1"].open
                   => /\ audit'["u1"].written = audit["u1"].written + 1
                      /\ audit'["u1"].line.result = "deleted"
                      /\ ~rooms'["u1"].exists
      ]_vars

\* the open ticket of u1 was deleted: its record and its room are gone and its
\* one line says deleted
C20_OpenDeleted ==
    /\ audit["u1"].gen = 1
    /\ tickets["u1"] = NoTicket
    /\ ticketKeys = <<>>
    /\ ~rooms["u1"].exists
    /\ audit["u1"].written = 1
    /\ audit["u1"].line.result = "deleted"

\* C21: when the punishment filter is given a BAN of a user, every open ticket
\* under the user's id or one of the previous ids is closed and gets a line with
\* result ticketban; given a punishment of another type it changes no ticket, no
\* room and no line.
C21_BanClosesTickets ==
    [][\A ids \in FilterIds :
          /\ PunishmentFilter(ids, "BAN")
                => \A u \in ids :
                       (tickets[u] # NoTicket /\ tickets[u].open)
                           => /\ tickets'[u] # NoTicket
                              /\ ~tickets'[u].open
                              /\ audit'[u].written = audit[u].written + 1
                              /\ audit'[u].line.result = "ticketban"
          /\ \A type \in PunishmentTypes \ {"BAN"} :
                PunishmentFilter(ids, type)
                    => UNCHANGED <<tickets, ticketKeys, rooms, audit, writePending>>
      ]_vars

\* the open tickets of u1 and of its previous id u2 were both closed by the ban
C21_BothClosedByBan ==
    \A u \in {"u1", "u2"} :
        /\ tickets[u] # NoTicket
        /\ ~tickets[u].open
        /\ rooms[u].exists
        /\ audit[u].written = 1
        /\ audit[u].line.result = "ticketban"

\* C22: whenever a step arms the escalation timer anew, the timer runs for the
\* short delay if an open, active, unclaimed request for public room assistance
\* is in the table, and for the long delay otherwise.
C22_ArmedDelay ==
    [][(unclaimedTicketTimer["staff"] = NoTimer /\ unclaimedTicketTimer'["staff"] # NoTimer)
          => timerEnds'["staff"] - now =
                 IF \E u \in UserIds :
                        /\ Unclaimed(tickets', u)
                        /\ tickets'[u].type = "Public Room Assistance Request"
                 THEN NOTIFY_ASSIST_TIMEOUT
                 ELSE NOTIFY_ALL_TIMEOUT
      ]_vars

C25_ClockStoppedWhileClaimed ==
    \A u \in UserIds :
        (rooms[u].exists /\ tickets[u] # NoTicket /\ tickets[u].open
             /\ (tickets[u].claimed # NULL \/ ~tickets[u].active))
            => rooms[u].game.lastUnclaimedStart = 0

\* C26: every line written for an activated ticket that had no non-staff user in
\* its room at its first claim says unresolved.
C26_EmptyAtFirstClaimUnresolved ==
    \A u \in UserIds :
        ( /\ audit[u].written >= 1
          /\ audit[u].atWrite.activated
          /\ audit[u].atWrite.claimed
          /\ audit[u].presentAtFirstClaim = "no" )
            => audit[u].line.resolution = "unresolved"

\* C26, as the code has it: the first claim of a ticket with no non-staff user
\* (and not its creator) in the room sets emptyRoom; emptyRoom stays set through
\* every step on the open ticket but the join of a non-staff user or of the
\* creator, which clears it; and every line written for an activated ticket with
\* emptyRoom set says unresolved.
C26_UnresolvedUnlessRejoined ==
    [][\A u \in Requesters :
          LET G == rooms[u].game
              G2 == rooms'[u].game
              SameRoom == rooms[u].exists /\ rooms'[u].exists /\ SameTicket(u)
          IN /\ ( /\ SameRoom
                  /\ G.firstClaimTime = 0 /\ G2.firstClaimTime # 0
                  /\ \A user \in rooms'[u].users : isStaff(user) /\ user # tickets[u].userid )
                    => G2.emptyRoom /\ audit'[u].presentAtFirstClaim = "no"
             /\ (SameRoom /\ G.emptyRoom /\ ~G2.emptyRoom)
                    => \E user \in UserIds :
                           /\ ~isStaff(user) \/ user = tickets[u].userid
                           /\ tickets[u].open
                           /\ user \in rooms'[u].users
                           /\ \/ Join(u, user)
                              \/ \E type \in TicketTypes : Submit(user, type, FALSE)
             /\ ( /\ SameRoom
                  /\ audit'[u].written = audit[u].written + 1
                  /\ tickets[u].active /\ G.emptyRoom )
                    => audit'[u].line.resolution = "unresolved"
      ]_vars

\* the ticket of u1 was first claimed while u1 was away, u1 did not come back,
\* and the line of the activated ticket says unresolved
C26_UnresolvedWritten ==
    /\ rooms["u1"].exists
    /\ rooms["u1"].game.emptyRoom
    /\ audit["u1"].written = 1
    /\ audit["u1"].atWrite.activated
    /\ audit["u1"].atWrite.claimed
    /\ audit["u1"].presentAtFirstClaim = "no"
    /\ audit["u1"].line.resolution = "unresolved"

\* C27: if the ticket of u1 is open, active and unclaimed from some time on for
\* ever, then notifyUnclaimedTicket runs at some time, whatever other events
\* call notifyStaff in the meantime.
\* (With one ticket the timer slot of the staff audience is empty beside an
\* unclaimed ticket only when the timeout has just run: activation fills it.)
C27_EventuallyFires ==
    (<>[]Unclaimed(tickets, "u1"))
        => <>(Unclaimed(tickets, "u1") /\ unclaimedTicketTimer["staff"] = NoTimer)

\* For a ticket of any other type the timeout does run: no call of notifyStaff
\* moves a pending timer then.
C27_FiresWithoutAssistRequest ==
    (<>[](Unclaimed(tickets, "u1") /\ tickets["u1"].type # "Public Room Assistance Request"))
        => <>(Unclaimed(tickets, "u1") /\ unclaimedTicketTimer["staff"] = NoTimer)

\* The two halves of C28: every run of notifyUnclaimedTicket leaves the timer slot
\* empty and the recorded end time 0; a call of notifyStaff (made with the staff
\* room in place by the requester leaving or rejoining the room) that finds no
\* timeout scheduled and an open, active, unclaimed ticket schedules one.
C28_SlotClearedByFire ==
    [][Fire => /\ unclaimedTicketTimer'["staff"] = NoTimer
               /\ timerEnds'["staff"] = 0]_vars

C28_NextCallArms ==
    [][( /\ Leave("u1", "u1") \/ Join("u1", "u1")
         /\ staffRoom
         /\ timeouts = {}
         /\ Unclaimed(tickets', "u1") )
       => timeouts' # {}]_vars

\* C28: after the timer has run the slot is empty and the end time 0, and the next
\* call of notifyStaff that finds an unclaimed ticket arms a new timer.
C28_ClearedAndRearmed ==
    C28_SlotClearedByFire /\ C28_NextCallArms

\* C29: when a staff member who waits in the claim queue of an open ticket and is
\* not its claimant leaves the room, the queue no longer holds that identity,
\* whatever joins came before.
C29_LeaverNotQueued ==
    [][\A r \in UserIds, user \in StaffIds :
          ( /\ rooms[r].exists
            /\ tickets[r].open
            /\ user \notin rooms[r].game.playerTable
            /\ toID(tickets[r].claimed) # user
            /\ \E i \in 1..Len(Queue(r)) : toID(Queue(r)[i]) = user
            /\ Leave(r, user) )
          => \A i \in 1..Len(rooms'[r].game.claimQueue) :
                 toID(rooms'[r].game.claimQueue[i]) # user
      ]_vars

\* C30: a forfeit by a participant of an open ticket while another participant is
\* in the player table leaves the ticket open and writes no line to the
\* statistics log.
C30_ForfeitKeepsOpen ==
    [][\A r \in UserIds, user \in UserIds :
          ( /\ rooms[r].exists
            /\ tickets[r].open
            /\ user \in rooms[r].game.playerTable
            /\ rooms[r].game.playerTable \ {user} # {}
            /\ Forfeit(r, user) )
          => /\ tickets'[r].open
             /\ audit'[r].written = audit[r].written
      ]_vars

\* C31: a message of the requester or of another user who is not staff, posted
\* in an open ticket that is not active, whose text normalizes to a blocked
\* greeting leaves active, activationTime, lastUnclaimedStart and
\* needsDelayWarning as they were and calls no notifyStaff: the timer slot, its
\* end time and the scheduled timeouts stay as they were.
C31_GreetingChangesNothing ==
    [][\A user \in GreetingUsers, message \in {"hello", "Hello!"} :
          ( /\ rooms["u1"].exists
            /\ tickets["u1"].open
            /\ ~tickets["u1"].active
            /\ Message("u1", user, message) )
          => /\ ~tickets'["u1"].active
             /\ rooms'["u1"].game.activationTime = rooms["u1"].game.activationTime
             /\ rooms'["u1"].game.lastUnclaimedStart = rooms["u1"].game.lastUnclaimedStart
             /\ tickets'["u1"].needsDelayWarning = tickets["u1"].needsDelayWarning
             /\ UNCHANGED <<unclaimedTicketTimer, timerEnds, timeouts>>
      ]_vars

\* a greeting was answered with the prompt in the inactive ticket of u1, with u3
\* in the room, while the timer armed for the request of u3 has run part of its
\* time: a notifyStaff call at this time would move it
C31_Greeted ==
    /\ rooms["u1"].exists
    /\ tickets["u1"].open /\ ~tickets["u1"].active
    /\ audit["u1"].prompted
    /\ "u3" \in rooms["u1"].users
    /\ Unclaimed(tickets, "u3")
    /\ unclaimedTicketTimer["staff"] # NoTimer
    /\ timerEnds["staff"] < now + NOTIFY_ASSIST_TIMEOUT

\* the userid of the open ticket that ticket creation by user finds: the user's
\* own, or the one open on the user's address
OpenTicketOf(user) ==
    IF tickets[user] = NoTicket /\ checkIp(tickets, ticketKeys, latestIp(user)) # NULL
    THEN checkIp(tickets, ticketKeys, latestIp(user))
    ELSE user

\* C32: when the help page or the submit command, used by a user who is not
\* ticket-banned, finds an open ticket whose room does not exist, the step ends
\* with the record closed and a write scheduled, and with the timer as a
\* notifyStaff call after the change leaves it: pending if and only if an open,
\* active, unclaimed ticket is in the table.
C32_OrphanClosedAndBroadcast ==
    [][\A user \in OrphanUsers :
          ( /\ ~checkBanned(user)
            /\ \/ tickets[user] # NoTicket /\ tickets[user].open
               \/ checkIp(tickets, ticketKeys, latestIp(user)) # NULL
            /\ ~rooms[OpenTicketOf(user)].exists
            /\ \/ PageRequest(user)
               \/ \E type \in OrphanTypes, limited \in BOOLEAN : Submit(user, type, limited) )
          => /\ \/ ~tickets'[OpenTicketOf(user)].open
                \/ rooms'[OpenTicketOf(user)].exists
             /\ writePending'
             /\ (unclaimedTicketTimer'["staff"] # NoTimer)
                    <=> \E u \in UserIds : Unclaimed(tickets', u)
      ]_vars

\* C33: with the staff room in place, every step that changes the open, active,
\* claimed or offline value of a ticket, or puts it in the table or takes it out,
\* ends after a notifyStaff call that has read the new values: the last summary
\* sent was made from the ticket as it is.
C33_BroadcastAfterChange ==
    [][\A u \in UserIds :
          (staffRoom /\ Shown(tickets'[u]) # Shown(tickets[u]))
              => audit'[u].shown = Shown(tickets'[u])
      ]_vars

\* the button the summary holds for a ticket: none unless the ticket is open and
\* active; it tells a claimed ticket from an unclaimed one, and an unclaimed
\* ticket whose requester is offline from one whose requester is there
Button(shown) ==
    IF shown = NoTicket \/ ~shown.open \/ ~shown.active THEN NoTicket
    ELSE [claimed |-> shown.claimed # NULL,
          offline |-> shown.claimed = NULL /\ shown.offline]

\* What holds of the tickets that have a room: with the staff room in place,
\* every step that changes what the summary shows of a ticket ends after a
\* notifyStaff call that has read the new values.
C33_SummaryAfterChange ==
    [][\A u \in UserIds :
          (staffRoom /\ Button(Shown(tickets'[u])) # Button(Shown(tickets[u])))
              => Button(audit'[u].shown) = Button(Shown(tickets'[u]))
      ]_vars

\* with the staff room in place the last summary sent shows every ticket as it is
C33_SummaryCurrent ==
    \A u \in UserIds : Button(audit[u].shown) = Button(Shown(tickets[u]))

\* C34: a step that finalizes the open ticket of u1 by a ticket ban, through the
\* ban command or the punishment filter, takes the record out of the table.
C34_BannedRecordRemoved ==
    [][( /\ tickets["u1"] # NoTicket
         /\ tickets["u1"].open
         /\ rooms["u1"].exists
         /\ BanCommand("u1", {}) \/ PunishmentFilter({"u1"}, "BAN") )
       => tickets'["u1"] = NoTicket]_vars

\* C34 as it holds: a step that finalizes the open ticket of u1 by a ticket ban,
\* through the ban command or the punishment filter, leaves the record in the
\* table with open = false and nothing else changed, as an ordinary close does
\* (then with the closing staff member as claimant); only the delete command
\* takes a record out.
C34_BannedRecordRetained ==
    [][/\ ( /\ tickets["u1"] # NoTicket
            /\ tickets["u1"].open
            /\ rooms["u1"].exists
            /\ BanCommand("u1", {}) \/ PunishmentFilter({"u1"}, "BAN") )
          => /\ tickets'["u1"] = [tickets["u1"] EXCEPT !.open = FALSE]
             /\ \E i \in 1..Len(ticketKeys') : ticketKeys'[i] = "u1"
       /\ \A result \in {"true", "false"} :
             ( /\ tickets["u1"] # NoTicket
               /\ tickets["u1"].open
               /\ CloseCommand("u1", "x", result) )
             => tickets'["u1"] = [tickets["u1"] EXCEPT !.open = FALSE, !.claimed = "X"]
       /\ tickets'["u1"] = NoTicket
             => (tickets["u1"] = NoTicket \/ DeleteCommand("u1", "x"))
      ]_vars

\* the ticket of u1 was finalized by the ban command: u1 is ticket-banned, the
\* statistics line says ticketban, the room is gone and the record is in the
\* table, closed
C34_BannedRetained ==
    /\ "u1" \in ticketBans
    /\ audit["u1"].written = 1
    /\ audit["u1"].line.result = "ticketban"
    /\ ~rooms["u1"].exists
    /\ tickets["u1"] # NoTicket
    /\ ~tickets["u1"].open

\* C35: a statistics line written for an activated ticket names no staff member
\* only if the ticket never had a claimant, whatever operation wrote the line.
C35_StaffNamed ==
    \A u \in UserIds :
        ( /\ audit[u].written >= 1
          /\ audit[u].atWrite.activated
          /\ audit[u].line.staff \ {""} = {} )
        => ~audit[u].atWrite.claimed

\* the step finalizes the open ticket of this user, whose room holds its game
Finalizes(u) ==
    /\ rooms[u].exists
    /\ tickets[u] # NoTicket
    /\ tickets[u].open
    /\ tickets'[u] = NoTicket \/ ~tickets'[u].open

\* C36: every step that finalizes a ticket either appends the ticket's line to the
\* statistics log or ends with an error at its caller: a failure of the append is
\* never swallowed, so no finalized ticket silently lacks its record.
C36_AppendFailurePropagates ==
    [][\A u \in UserIds :
          Finalizes(u) => \/ audit'[u].written = audit[u].written + 1
                          \/ thrown' # NULL]_vars

\* the same with a statistics log that never fails
C36_RecordWhenLogWorks ==
    [][\A u \in UserIds :
          (Finalizes(u) /\ logFault = "none")
              => audit'[u].written = audit[u].written + 1]_vars

\* an error of the append other than file-not-found reaches the caller
C36_OtherErrorsPropagate ==
    [][\A u \in UserIds :
          (Finalizes(u) /\ logFault = "EACCES") => thrown' = "EACCES"]_vars

\* C37: once the handlers stop, the write that was scheduled at or after the last
\* change of the table is done, so the stored snapshot equals the table again and
\* again, and for good when no further event happens.
C37_SnapshotCatchesUp == []<>(ticketData = tickets)

\* the safety half: while the snapshot differs from the table a write is pending
C37_ChangeSchedulesWrite == (ticketData # tickets) => writePending

\* the table's entries without the two fields that activation and the delay
\* warning change
Durable(tk) ==
    [u \in UserIds |->
        IF tk[u] = NoTicket THEN NoTicket
        ELSE [open |-> tk[u].open, claimed |-> tk[u].claimed,
              offline |-> tk[u].offline, created |-> tk[u].created,
              type |-> tk[u].type]]

\* the same for the store's entries and their open, claimed and offline fields
C37_DurableFieldsScheduled == (Durable(ticketData) # Durable(tickets)) => writePending

\* the delay warning was posted and its flag cleared, and the file still holds the
\* flag with no write pending
C37_WarningFlagUnsaved ==
    /\ tickets["u1"] # NoTicket /\ ticketData["u1"] # NoTicket
    /\ ~tickets["u1"].needsDelayWarning
    /\ ticketData["u1"].needsDelayWarning
    /\ ~writePending

\* C38: the firstClaimWait of every statistics line is at least 0, in whatever
\* order the ticket was activated and first claimed.
C38_WaitNeverNegative ==
    \A u \in UserIds :
        audit[u].written >= 1 => audit[u].line.firstClaimWait >= 0

\* the wait is 0 for a ticket that was never activated
C38_ZeroWhenNeverActivated ==
    \A u \in UserIds :
        (audit[u].written >= 1 /\ ~audit[u].atWrite.activated)
            => audit[u].line.firstClaimWait = 0

\* a ticket that was never claimed waited from its activation to its close, which
\* is not negative
C38_UnclaimedWaitNotNegative ==
    \A u \in UserIds :
        (audit[u].written >= 1 /\ ~audit[u].atWrite.claimed)
            => audit[u].line.firstClaimWait >= 0

\* the step creates a ticket of this user, with its game
Created(u) == audit'[u].gen # audit[u].gen

\* C39: a ticket that was just submitted is open and unclaimed, and active exactly
\* when its type is ISP-Appeal, the one type without a context prompt; its game
\* has createTime at the submission, activationTime and lastUnclaimedStart equal
\* to createTime for an active ticket and 0 otherwise, an empty claim queue and
\* firstClaimTime and unclaimedTime 0.
C39_NewTicket ==
    [][\A u \in UserIds :
          Created(u) =>
              LET ticket == tickets'[u]
                  g == rooms'[u].game
              IN /\ ticket # NoTicket /\ rooms'[u].exists
                 /\ ticket.open /\ ticket.claimed = NULL
                 /\ ticket.active <=> (ticket.type = "ISP-Appeal")
                 /\ g.createTime = now
                 /\ g.activationTime = (IF ticket.active THEN g.createTime ELSE 0)
                 /\ g.lastUnclaimedStart = (IF ticket.active THEN g.createTime ELSE 0)
                 /\ g.claimQueue = <<>>
                 /\ g.firstClaimTime = 0
                 /\ g.unclaimedTime = 0]_vars

\* a second ticket of u1, with a context prompt, submitted after the first one was
\* claimed and closed, and later than the start
C39_Resubmitted ==
    /\ audit["u1"].gen = 0
    /\ tickets["u1"] # NoTicket
    /\ tickets["u1"].open /\ ~tickets["u1"].active
    /\ tickets["u1"].created > StartTime
    /\ rooms["u1"].exists
    /\ rooms["u1"].game.createTime = tickets["u1"].created

\* the lines of a file that list this identity
Listing(log, n) == {i \in DOMAIN log : \E j \in DOMAIN log[i].staff : log[i].staff[j] = n}

RECURSIVE WorkSum(_, _)
WorkSum(log, lines) ==
    IF lines = {} THEN 0
    ELSE LET i == CHOOSE k \in lines : TRUE
         IN (log[i].total - log[i].initwait) + WorkSum(log, lines \ {i})

\* C40: the by-staff page of a month has one row for every non-empty identity
\* that some line of the month lists and no other row; the row's count is the
\* number of lines listing the identity and its time is the mean of total minus
\* first-claim wait over those lines, rounded to an integer; a month without
\* lines gives a page without rows.
C40_StaffView ==
    staffPage # NoPage =>
        LET log == staffPage.of
            rows == staffPage.rows
        IN /\ {rows[i].staff : i \in DOMAIN rows}
                  = {n \in LogNames \ {""} : Listing(log, n) # {}}
           /\ \A i, j \in DOMAIN rows : rows[i].staff = rows[j].staff => i = j
           /\ \A i \in DOMAIN rows :
                  LET lines == Listing(log, rows[i].staff)
                      num == Cardinality(lines)
                      sum == WorkSum(log, lines)
                  IN /\ rows[i].num = num
                     /\ 2 * sum - num <= 2 * num * rows[i].time
                     /\ 2 * num * rows[i].time <= 2 * sum + num
           /\ log = <<>> => rows = <<>>

\* a page of two lines that share a staff member, one of them with an identity
\* that is empty or another
C40_TwoLinesViewed ==
    /\ staffPage # NoPage
    /\ Len(staffPage.of) = 2
    /\ Cardinality(Listing(staffPage.of, "x")) = 2
    /\ \E i \in DOMAIN staffPage.rows :
           staffPage.rows[i].staff = "x" /\ staffPage.rows[i].num = 2

\* the page of a month without lines
C40_EmptyMonthViewed == staffPage # NoPage /\ staffPage.of = <<>>

=============================================================================
